---- MODULE Spec2Model ----
(***************************************************************************)
(* Model of sparkfun_rfid/rfid_reader.py: the RFID class's message buffer  *)
(* (msg), the incremental decoder (check), the blocking transaction        *)
(* (send_message / send_command), the response classifier                  *)
(* (parse_response), the tag-field getters and the memory-bank operations  *)
(* (read_data / write_data / kill_tag).  Bytes keep their width (0..255),  *)
(* the CRC is computed nibble by nibble as calculate_crc does, and the     *)
(* buffer keeps its real capacity MAX_MSG_SIZE.                            *)
(***************************************************************************)
EXTENDS Integers, Sequences, FiniteSets, TLC

(***************************************************************************)
(* sparkfun_rfid/constants.py                                              *)
(***************************************************************************)
MAX_MSG_SIZE == 255
ALL_GOOD == 0
ERROR_COMMAND_RESPONSE_TIMEOUT == 1
ERROR_CORRUPT_RESPONSE == 2
ERROR_WRONG_OPCODE_RESPONSE == 3
ERROR_UNKNOWN_OPCODE == 4
RESPONSE_IS_TEMPERATURE == 5
RESPONSE_IS_KEEPALIVE == 6
RESPONSE_IS_TEMPTHROTTLE == 7
RESPONSE_IS_TAGFOUND == 8
RESPONSE_IS_NOTAGFOUND == 9
RESPONSE_IS_UNKNOWN == 10
RESPONSE_SUCCESS == 11
RESPONSE_FAIL == 12
RESPONSE_IS_HIGHRETURNLOSS == 13
TMR_SR_OPCODE_VERSION == 3
TMR_SR_OPCODE_READ_TAG_ID_MULTIPLE == 34
TMR_SR_OPCODE_WRITE_TAG_DATA == 36
TMR_SR_OPCODE_KILL_TAG == 38
TMR_SR_OPCODE_READ_TAG_DATA == 40
TMR_SR_OPCODE_MULTI_PROTOCOL_TAG_OP == 47
TMR_SR_OPCODE_SET_REGION == 151
TMR_SR_OPCODE_SET_READER_OPTIONAL_PARAMS == 154
REGION_NORTHAMERICA2 == 1
REGION_INDIA == 4
REGION_JAPAN == 5
REGION_CHINA == 6
REGION_EUROPE == 8
REGION_KOREA == 9
REGION_AUSTRALIA == 11
REGION_NEWZEALAND == 12
REGION_NORTHAMERICA == 13
REGION_OPEN == 255
COMMAND_TIME_OUT == 2000
CRC_TABLE ==
  << 0, 4129, 8258, 12387, 16516, 20645, 24774, 28903,
     33032, 37161, 41290, 45419, 49548, 53677, 57806, 61935 >>

\* class ModuleType(Enum)
M6E_NANO == 0
M7E_HECTO == 1
ModuleType == { M6E_NANO, M7E_HECTO }

(***************************************************************************)
(* Bytes, the buffer and Python's slices                                   *)
(*                                                                         *)
(* A bytearray is a sequence of its bytes: byte i of the bytearray m       *)
(* (Python's m[i], i from 0) is B(m, i), the element i + 1 of the sequence.*)
(***************************************************************************)
Byte == 0 .. 255
HEADER == 255

Min(a, b) == IF a < b THEN a ELSE b
Max(a, b) == IF a > b THEN a ELSE b

\* F applied to the value of e, e being computed once
Bind(e, F(_)) == CHOOSE y \in { F(v) : v \in { e } } : TRUE

\* n zero bytes
Zeros(n) == [i \in 1 .. n |-> 0] \o << >>

\* bytearray(MAX_MSG_SIZE): all zero
ZeroMsg == Zeros(MAX_MSG_SIZE)

\* m[i]
B(m, i) == m[i + 1]

\* m[i] = v, for an index i of the buffer
Put(m, i, v) == [m EXCEPT ![i + 1] = v]

\* the elements a .. b of the sequence s that exist
Part(s, a, b) ==
  IF a > b \/ a > Len(s) THEN << >> ELSE SubSeq(s, Max(a, 1), Min(b, Len(s)))

\* m[a:b] (a, b >= 0): a slice is clipped to the bytearray and is empty when
\* b <= a
Slice(m, a, b) == Part(m, a + 1, b)

\* m[at + x] = s[x] for every x for which at + x is an index of the buffer
\* (the stores beyond the buffer are the caller's business)
Store(m, at, s) ==
  Part(m, 1, at) \o Part(s, 1, Len(m) - at) \o Part(m, at + Len(s) + 1, Len(m))

\* bitwise operators on naturals
RECURSIVE BitXor(_, _)
BitXor(a, b) ==
  IF a = 0 THEN b
  ELSE IF b = 0 THEN a
  ELSE ((a + b) % 2) + 2 * BitXor(a \div 2, b \div 2)

RECURSIVE BitOr(_, _)
BitOr(a, b) ==
  IF a = 0 THEN b
  ELSE IF b = 0 THEN a
  ELSE (IF (a % 2) + (b % 2) > 0 THEN 1 ELSE 0) + 2 * BitOr(a \div 2, b \div 2)

\* a ^ b for a, b < 16, tabulated: entry 16 * a + b + 1
XorNibbles == [p \in 1 .. 256 |-> BitXor((p - 1) \div 16, (p - 1) % 16)] \o << >>

\* a ^ b for a, b < 2^16, nibble by nibble
Xor16(a, b) ==
  XorNibbles[16 * (a % 16) + (b % 16) + 1]
    + 16 * XorNibbles[16 * ((a \div 16) % 16) + ((b \div 16) % 16) + 1]
    + 256 * XorNibbles[16 * ((a \div 256) % 16) + ((b \div 256) % 16) + 1]
    + 4096 * XorNibbles[16 * ((a \div 4096) % 16) + ((b \div 4096) % 16) + 1]

(***************************************************************************)
(* calculate_crc: two table lookups per byte, register seeded 0xFFFF       *)
(***************************************************************************)
\* crc = ((crc << 4) | nibble) ^ CRC_TABLE[crc >> 12]; crc &= 0xFFFF
\* (the low 4 bits of crc << 4 are zero, so the | adds the nibble; the bits
\* of crc << 4 above the 16th are dropped by the mask, before or after the ^)
CrcNibble(crc, nibble) ==
  Xor16(((crc * 16) + nibble) % 65536, CRC_TABLE[(crc \div 4096) + 1])

CrcByte(crc, byte) ==
  CrcNibble(CrcNibble(crc, byte \div 16), byte % 16)

\* the register after the bytes data[lo .. hi], in order: the for loop of
\* calculate_crc, split in halves; the test on the left half's register makes
\* it a value before the right half starts
RECURSIVE CrcRange(_, _, _, _)
CrcRange(crc, data, lo, hi) ==
  IF lo > hi THEN crc
  ELSE IF lo = hi THEN CrcByte(crc, data[lo])
  ELSE LET mid == (lo + hi) \div 2
           left == CrcRange(crc, data, lo, mid)
       IN  IF left \in Nat THEN CrcRange(left, data, mid + 1, hi) ELSE left

calculate_crc(data) ==
  Bind(data, LAMBDA d : CrcRange(65535, d, 1, Len(d)))

(***************************************************************************)
(* Debugging: what enable_debugging() makes the calls print                *)
(***************************************************************************)
\* the dump of the whole frame, length byte + 7 bytes, which C21 tells from
\* the number of bytes the code prints
FormatMsgWholeFrame(m) ==
  LET amt_to_print == B(m, 1) + 7
  IN  [text |-> Slice(m, 0, amt_to_print),
       raised |-> amt_to_print > MAX_MSG_SIZE]

\* _format_msg(), lines 696-699: the bytes msg[x] for x in range(amt_to_print),
\* each printed as "[XX]"; raised is the IndexError of an x beyond the buffer
format_msg(m) ==
  LET amt_to_print == Min(B(m, 1) + 5, MAX_MSG_SIZE)
  IN  [text |-> Slice(m, 0, amt_to_print),
       raised |-> amt_to_print > MAX_MSG_SIZE]

\* a line without a dump: print(line) if debugging is enabled
Say(debug, line) ==
  IF debug THEN << [line |-> line, dump |-> << >>, chars |-> 0] >> ELSE << >>

\* print(line, self._format_msg()[:chars]) if debugging is enabled: the dump
\* has 5 characters for each byte but the last, which has 4, and the slice
\* keeps the first chars of them
DebugPrint(debug, line, m, chars) ==
  IF ~debug THEN [out |-> << >>, raised |-> FALSE]
  ELSE Bind(format_msg(m), LAMBDA f :
         IF f.raised THEN [out |-> << >>, raised |-> TRUE]
         ELSE [out |-> << [line |-> line, dump |-> f.text,
                           chars |-> Min(chars, (5 * Len(f.text)) - 1)] >>,
               raised |-> FALSE])

(***************************************************************************)
(* check: the incremental, byte-at-a-time decoder                          *)
(***************************************************************************)
\* one pass that stores every byte, header or not, which C24 tells from the
\* header search of the code
CheckStepStoresNoise(st, incoming_byte) ==
  IF st.done THEN st
  ELSE Bind(Put(st.msg, st.head, incoming_byte), LAMBDA m1 :
         LET h1 == (st.head + 1) % MAX_MSG_SIZE
             c1 == IF st.head = 0 THEN << incoming_byte >>
                   ELSE Append(st.stored, incoming_byte)
         IN  IF h1 > 0 /\ h1 = B(m1, 1) + 7
             THEN [msg |-> Part(m1, 1, h1) \o Zeros(MAX_MSG_SIZE - h1),
                   head |-> 0, n |-> st.n + 1, done |-> TRUE, stored |-> c1]
             ELSE [msg |-> m1, head |-> h1, n |-> st.n + 1, done |-> FALSE,
                   stored |-> c1])

\* one pass that leaves the buffer behind a complete message as it is, which
\* C23 tells from the clearing of the code
CheckStepKeepsTail(st, incoming_byte) ==
  IF st.done THEN st
  ELSE IF st.head = 0 /\ incoming_byte # HEADER
  THEN [st EXCEPT !.n = @ + 1]
  ELSE Bind(Put(st.msg, st.head, incoming_byte), LAMBDA m1 :
         LET h1 == (st.head + 1) % MAX_MSG_SIZE
             c1 == IF st.head = 0 THEN << incoming_byte >>
                   ELSE Append(st.stored, incoming_byte)
         IN  IF h1 > 0 /\ h1 = B(m1, 1) + 7
             THEN [msg |-> m1,
                   head |-> 0, n |-> st.n + 1, done |-> TRUE, stored |-> c1]
             ELSE [msg |-> m1, head |-> h1, n |-> st.n + 1, done |-> FALSE,
                   stored |-> c1])

\* One pass of the while loop of check() on the byte read from the port.
\* st.n counts the bytes read from the port, st.done is "return True".
\* st.stored is bookkeeping only: the bytes stored since, and including, the
\* header byte that was stored at cursor 0, in arrival order.
CheckStep(st, incoming_byte) ==
  IF st.done THEN st
  ELSE IF st.head = 0 /\ incoming_byte # HEADER
  THEN [st EXCEPT !.n = @ + 1]
  ELSE Bind(Put(st.msg, st.head, incoming_byte), LAMBDA m1 :
         LET h1 == (st.head + 1) % MAX_MSG_SIZE
             c1 == IF st.head = 0 THEN << incoming_byte >>
                   ELSE Append(st.stored, incoming_byte)
         IN  IF h1 > 0 /\ h1 = B(m1, 1) + 7
             THEN [msg |-> Part(m1, 1, h1) \o Zeros(MAX_MSG_SIZE - h1),
                   head |-> 0, n |-> st.n + 1, done |-> TRUE, stored |-> c1]
             ELSE [msg |-> m1, head |-> h1, n |-> st.n + 1, done |-> FALSE,
                   stored |-> c1])

\* the while loop over the bytes q[lo .. hi] waiting in the port, in order,
\* split in halves; it stops consuming at the byte that completes a message
RECURSIVE CheckLoop(_, _, _, _)
CheckLoop(st, q, lo, hi) ==
  IF lo > hi THEN st
  ELSE IF lo = hi THEN Bind(st, LAMBDA s0 : CheckStep(s0, q[lo]))
  ELSE LET mid == (lo + hi) \div 2
       IN  Bind(CheckLoop(st, q, lo, mid), LAMBDA left :
             IF left.done THEN left ELSE CheckLoop(left, q, mid + 1, hi))

\* check() reading everything the port holds, which C25 tells from the
\* byte-by-byte read of the code
CheckDrainsPort(m, h, cnt, isopen, debug, q) ==
  IF ~isopen \/ Len(q) = 0
  THEN [ret |-> FALSE, msg |-> m, head |-> h, rx |-> q, stored |-> cnt,
        raised |-> FALSE, printed |-> << >>]
  ELSE Bind(CheckLoop([msg |-> m, head |-> h, n |-> 0, done |-> FALSE,
                       stored |-> cnt], q, 1, Len(q)), LAMBDA st :
         [ret |-> st.done, msg |-> st.msg, head |-> st.head,
          rx |-> << >>, stored |-> st.stored,
          raised |-> FALSE, printed |-> << >>])

\* check(): the returned value, the buffer, the cursor and what is left in
\* the port.  With debugging enabled a complete message is printed before
\* True is returned (lines 280-281); raised is an exception of the print.
check(m, h, cnt, isopen, debug, q) ==
  IF ~isopen \/ Len(q) = 0
  THEN [ret |-> FALSE, msg |-> m, head |-> h, rx |-> q, stored |-> cnt,
        raised |-> FALSE, printed |-> << >>]
  ELSE Bind(CheckLoop([msg |-> m, head |-> h, n |-> 0, done |-> FALSE,
                       stored |-> cnt], q, 1, Len(q)), LAMBDA st :
         Bind(IF st.done
              THEN DebugPrint(debug, "Response:", st.msg, 5 * MAX_MSG_SIZE)
              ELSE [out |-> << >>, raised |-> FALSE], LAMBDA p :
           [ret |-> st.done /\ ~p.raised, msg |-> st.msg, head |-> st.head,
            rx |-> Part(q, st.n + 1, Len(q)), stored |-> st.stored,
            raised |-> p.raised, printed |-> p.out]))

(***************************************************************************)
(* send_message / send_command: one blocking transaction                   *)
(***************************************************************************)
\* the length byte kept when the buffer holds a longer message, which C16
\* tells from the assignment of the code
FillMessageKeepLonger(m, opcode, data) ==
  IF Len(data) > 255 THEN [msg |-> m, raised |-> TRUE]
  ELSE [msg |-> Store(Put(Put(m, 1, Max(B(m, 1), Len(data))), 2, opcode), 3, data),
        raised |-> 3 + Len(data) > MAX_MSG_SIZE]

\* send_message, lines 576-581: length, opcode and data into the buffer.
\* bytearray rejects a value above 255 (ValueError) and an index beyond
\* the buffer (IndexError): raised is either of them.
FillMessage(m, opcode, data) ==
  IF Len(data) > 255 THEN [msg |-> m, raised |-> TRUE]
  ELSE [msg |-> Store(Put(Put(m, 1, Len(data)), 2, opcode), 3, data),
        raised |-> 3 + Len(data) > MAX_MSG_SIZE]

\* the header and the CRC with its two bytes exchanged, which C4 tells from
\* the order of the code
AttachCrcLowFirst(m) ==
  Bind(Put(m, 0, HEADER), LAMBDA m0 :
    Bind(calculate_crc(Slice(m0, 1, B(m0, 1) + 3)), LAMBDA crc :
      LET message_length == B(m0, 1)
      IN  IF message_length + 4 >= MAX_MSG_SIZE
          THEN [msg |-> m0, raised |-> TRUE]
          ELSE [msg |-> Put(Put(m0, message_length + 3, crc % 256),
                            message_length + 4, crc \div 256),
                raised |-> FALSE]))

\* send_command, lines 594-601: header and CRC around the message in the
\* buffer; an IndexError when a CRC byte falls beyond the buffer
AttachCrc(m) ==
  Bind(Put(m, 0, HEADER), LAMBDA m0 :
    Bind(calculate_crc(Slice(m0, 1, B(m0, 1) + 3)), LAMBDA crc :
      LET message_length == B(m0, 1)
      IN  IF message_length + 3 >= MAX_MSG_SIZE
          THEN [msg |-> m0, raised |-> TRUE]
          ELSE IF message_length + 4 >= MAX_MSG_SIZE
          THEN [msg |-> Put(m0, message_length + 3, crc \div 256),
                raised |-> TRUE]
          ELSE [msg |-> Put(Put(m0, message_length + 3, crc \div 256),
                            message_length + 4, crc % 256),
                raised |-> FALSE]))

\* send_command, lines 622-651: the two wait loops.  avail holds the bytes
\* the port delivers before the timeout elapses, in order.  The result is
\* the buffer, the number of bytes read from the port and how the loops
\* ended: "timeout" (lines 630, 642), "raised" (the store at line 646 with
\* spot = MAX_MSG_SIZE) or "complete" (spot reached message_length).
ReadResponse(m, avail) ==
  LET message_length == IF Len(avail) >= 2 THEN avail[2] + 7
                        ELSE MAX_MSG_SIZE - 1
  IN  IF Len(avail) = 0
      THEN [msg |-> m, n |-> 0, end |-> "timeout"]
      ELSE IF message_length > MAX_MSG_SIZE /\ Len(avail) > MAX_MSG_SIZE
      THEN [msg |-> Store(m, 0, Part(avail, 1, MAX_MSG_SIZE)),
            n |-> MAX_MSG_SIZE + 1, end |-> "raised"]
      ELSE IF Len(avail) < message_length
      THEN [msg |-> Store(m, 0, avail), n |-> Len(avail), end |-> "timeout"]
      ELSE [msg |-> Store(m, 0, Part(avail, 1, message_length)),
            n |-> message_length, end |-> "complete"]

\* the decision with only the high byte of the CRC compared, which C5
\* tells from the comparison of the code
OutcomeByHighByte(m, opcode) ==
  LET message_length == B(m, 1) + 7
  IN  Bind(calculate_crc(Slice(m, 1, message_length - 2)), LAMBDA crc :
        IF B(m, message_length - 2) # crc \div 256
        THEN ERROR_CORRUPT_RESPONSE
        ELSE IF B(m, 2) # opcode
        THEN ERROR_WRONG_OPCODE_RESPONSE
        ELSE ALL_GOOD)

\* send_command, lines 656-673: the CRC, then the opcode, decide msg[0]
Outcome(m, opcode) ==
  LET message_length == B(m, 1) + 7
  IN  Bind(calculate_crc(Slice(m, 1, message_length - 2)), LAMBDA crc :
        IF B(m, message_length - 2) # crc \div 256
             \/ B(m, message_length - 1) # crc % 256
        THEN ERROR_CORRUPT_RESPONSE
        ELSE IF B(m, 2) # opcode
        THEN ERROR_WRONG_OPCODE_RESPONSE
        ELSE ALL_GOOD)

\* send_command reading what the port held at the call before the answer,
\* which C17 tells from the clearing of the code
SendCommandKeepsInput(m, isopen, debug, q, wait_for_response, resp, k) ==
  Bind(AttachCrc(m), LAMBDA a :
    IF a.raised
    THEN [msg |-> a.msg, rx |-> q, wrote |-> << >>, raised |-> TRUE,
          printed |-> << >>]
    ELSE IF ~isopen
    THEN [msg |-> a.msg, rx |-> q, wrote |-> << >>, raised |-> FALSE,
          printed |-> << >>]
    ELSE IF ~wait_for_response
    THEN [msg |-> a.msg, rx |-> q \o resp,
          wrote |-> Slice(a.msg, 0, B(a.msg, 1) + 5), raised |-> FALSE,
          printed |-> << >>]
    ELSE Bind(ReadResponse(a.msg, q \o Part(resp, 1, k)), LAMBDA r :
      LET opcode == B(a.msg, 2)
          left == Part(q \o resp, r.n + 1, Len(q) + Len(resp))
          frame == Slice(a.msg, 0, B(a.msg, 1) + 5)
      IN  IF r.end = "timeout"
          THEN [msg |-> Put(r.msg, 0, ERROR_COMMAND_RESPONSE_TIMEOUT),
                rx |-> left, wrote |-> frame, raised |-> FALSE,
                printed |-> << >>]
          ELSE IF r.end = "raised"
          THEN [msg |-> r.msg, rx |-> left, wrote |-> frame, raised |-> TRUE,
                printed |-> << >>]
          ELSE [msg |-> Put(r.msg, 0, Outcome(r.msg, opcode)),
                rx |-> left, wrote |-> frame, raised |-> FALSE,
                printed |-> << >>]))

\* send_command(timeout, wait_for_response) on the buffer m.  q is what the
\* port holds at the call; resp is what the module sends after the command
\* was written and k how many of its bytes are delivered before the timeout.
\* wrote is the byte sequence written to the port (empty when nothing was),
\* printed the lines printed when debugging is enabled (lines 603-604,
\* 607-608, 628-629, 640-641, 653-654, 661-662, 668-669).
send_command(m, isopen, debug, q, wait_for_response, resp, k) ==
  Bind(AttachCrc(m), LAMBDA a :
    IF a.raised
    THEN [msg |-> a.msg, rx |-> q, wrote |-> << >>, raised |-> TRUE,
          printed |-> << >>]
    ELSE Bind(DebugPrint(debug, "Send command:", a.msg, B(a.msg, 1) + 5),
              LAMBDA p1 :
      IF p1.raised
      THEN [msg |-> a.msg, rx |-> q, wrote |-> << >>, raised |-> TRUE,
            printed |-> << >>]
      ELSE IF ~isopen
      THEN [msg |-> a.msg, rx |-> q, wrote |-> << >>, raised |-> FALSE,
            printed |-> p1.out \o Say(debug, "Error: Serial port not initialized")]
      ELSE IF ~wait_for_response
      THEN [msg |-> a.msg, rx |-> resp,
            wrote |-> Slice(a.msg, 0, B(a.msg, 1) + 5), raised |-> FALSE,
            printed |-> p1.out]
      ELSE Bind(ReadResponse(a.msg, Part(resp, 1, k)), LAMBDA r :
        LET opcode == B(a.msg, 2)
            left == Part(resp, r.n + 1, Len(resp))
            frame == Slice(a.msg, 0, B(a.msg, 1) + 5)
        IN  IF r.end = "timeout"
            THEN [msg |-> Put(r.msg, 0, ERROR_COMMAND_RESPONSE_TIMEOUT),
                  rx |-> left, wrote |-> frame, raised |-> FALSE,
                  printed |-> p1.out
                    \o Say(debug, IF r.n = 0
                                  THEN "Timeout: No response from module"
                                  ELSE "Timeout: Incomplete response")]
            ELSE IF r.end = "raised"
            THEN [msg |-> r.msg, rx |-> left, wrote |-> frame, raised |-> TRUE,
                  printed |-> p1.out]
            ELSE Bind(DebugPrint(debug, "Response:", r.msg, B(r.msg, 1) + 7),
                      LAMBDA p2 :
              IF p2.raised
              THEN [msg |-> r.msg, rx |-> left, wrote |-> frame,
                    raised |-> TRUE, printed |-> p1.out]
              ELSE Bind(Outcome(r.msg, opcode), LAMBDA o :
                [msg |-> Put(r.msg, 0, o),
                 rx |-> left, wrote |-> frame, raised |-> FALSE,
                 printed |-> p1.out \o p2.out
                   \o (IF o = ERROR_CORRUPT_RESPONSE
                       THEN Say(debug, "Corrupt response")
                       ELSE IF o = ERROR_WRONG_OPCODE_RESPONSE
                       THEN Say(debug, "Wrong opcode response")
                       ELSE << >>)])))))

\* send_message(opcode, data, timeout, wait_for_response)
send_message(m, isopen, debug, q, opcode, data, wait_for_response, resp, k) ==
  Bind(FillMessage(m, opcode, data), LAMBDA f :
    IF f.raised
    THEN [msg |-> f.msg, rx |-> q, wrote |-> << >>, raised |-> TRUE,
          printed |-> << >>]
    ELSE send_command(f.msg, isopen, debug, q, wait_for_response, resp, k))

(***************************************************************************)
(* parse_response and the tag-report getters                               *)
(***************************************************************************)
\* the classifier without its row for length 8, which C6 tells from the
\* classifier of the code
ClassifyWithoutLength8(m) ==
  LET status_msg == BitOr(B(m, 3) * 256, B(m, 4))
  IN  IF B(m, 2) # TMR_SR_OPCODE_READ_TAG_ID_MULTIPLE THEN ERROR_UNKNOWN_OPCODE
      ELSE IF B(m, 1) = 0
      THEN IF status_msg = 1024 THEN RESPONSE_IS_KEEPALIVE
           ELSE IF status_msg = 1284 THEN RESPONSE_IS_TEMPTHROTTLE
           ELSE IF status_msg = 1285 THEN RESPONSE_IS_HIGHRETURNLOSS
           ELSE RESPONSE_IS_UNKNOWN
      ELSE IF B(m, 1) = 10 THEN RESPONSE_IS_TEMPERATURE
      ELSE RESPONSE_IS_TAGFOUND

\* parse_response, lines 500-522: the kind of a frame whose CRC is right
Classify(m) ==
  LET status_msg == BitOr(B(m, 3) * 256, B(m, 4))
  IN  IF B(m, 2) = TMR_SR_OPCODE_READ_TAG_ID_MULTIPLE
      THEN IF B(m, 1) = 0
           THEN IF status_msg = 1024 THEN RESPONSE_IS_KEEPALIVE
                ELSE IF status_msg = 1284 THEN RESPONSE_IS_TEMPTHROTTLE
                ELSE IF status_msg = 1285 THEN RESPONSE_IS_HIGHRETURNLOSS
                ELSE RESPONSE_IS_UNKNOWN
           ELSE IF B(m, 1) = 8 THEN RESPONSE_IS_UNKNOWN
           ELSE IF B(m, 1) = 10 THEN RESPONSE_IS_TEMPERATURE
           ELSE RESPONSE_IS_TAGFOUND
      ELSE ERROR_UNKNOWN_OPCODE

\* parse_response looking at the opcode before the CRC, which C26 tells from
\* the order of the code
ParseResponseOpcodeFirst(m) ==
  LET msg_length == B(m, 1) + 7
      Is(code) == [ret |-> code, raised |-> FALSE]
      Raise == [ret |-> -1, raised |-> TRUE]
  IN  IF B(m, 2) # TMR_SR_OPCODE_READ_TAG_ID_MULTIPLE
      THEN Is(ERROR_UNKNOWN_OPCODE)
      ELSE Bind(calculate_crc(Slice(m, 1, msg_length - 2)), LAMBDA message_crc :
        IF msg_length - 2 >= MAX_MSG_SIZE THEN Raise
        ELSE IF B(m, msg_length - 2) # message_crc \div 256
        THEN Is(ERROR_CORRUPT_RESPONSE)
        ELSE IF msg_length - 1 >= MAX_MSG_SIZE THEN Raise
        ELSE IF B(m, msg_length - 1) # message_crc % 256
        THEN Is(ERROR_CORRUPT_RESPONSE)
        ELSE Is(Classify(m)))

\* parse_response(): the returned code; raised is the IndexError of reading
\* a CRC byte beyond the buffer (lines 496-497, the second comparison is
\* evaluated only when the first finds the bytes equal)
parse_response(m) ==
  LET msg_length == B(m, 1) + 7
      Is(code) == [ret |-> code, raised |-> FALSE]
      Raise == [ret |-> -1, raised |-> TRUE]
  IN  Bind(calculate_crc(Slice(m, 1, msg_length - 2)), LAMBDA message_crc :
        IF msg_length - 2 >= MAX_MSG_SIZE THEN Raise
        ELSE IF B(m, msg_length - 2) # message_crc \div 256
        THEN Is(ERROR_CORRUPT_RESPONSE)
        ELSE IF msg_length - 1 >= MAX_MSG_SIZE THEN Raise
        ELSE IF B(m, msg_length - 1) # message_crc % 256
        THEN Is(ERROR_CORRUPT_RESPONSE)
        ELSE Is(Classify(m)))

\* timestamp |= msg[17 + x] << (8 * (3 - x)) for x in 0..3: a value below
\* 2^32, kept as its two 16-bit halves << high, low >> (it is
\* high * 65536 + low)
get_tag_timestamp(m) ==
  << BitOr(BitOr(0, B(m, 17) * 256), B(m, 18)),
     BitOr(BitOr(0, B(m, 19) * 256), B(m, 20)) >>

\* freq |= msg[14 + x] << (8 * (2 - x)) for x in 0..2
get_tag_freq(m) ==
  BitOr(BitOr(BitOr(0, B(m, 14) * 65536), B(m, 15) * 256), B(m, 16))

\* the RSSI byte read as a two's-complement int8, which C10 tells from the
\* offset by 256 of the code
RssiAsInt8(m) == IF B(m, 12) >= 128 THEN B(m, 12) - 256 ELSE B(m, 12)

get_tag_rssi(m) == B(m, 12) - 256

\* get_tag_data_bytes(), lines 536-542: the bit count at 24..25, in bytes,
\* rounded up
get_tag_data_bytes(m) ==
  LET tag_data_length == BitOr(B(m, 24) * 256, B(m, 25))
      tag_data_bytes == tag_data_length \div 8
  IN  IF tag_data_length % 8 > 0 THEN tag_data_bytes + 1 ELSE tag_data_bytes

\* the EPC length read at the fixed offsets 27..28, which C11 tells from
\* the offsets of the code
EpcBytesAtFixedOffset(m) ==
  LET epc_bits == BitOr(B(m, 27) * 256, B(m, 28))
  IN  [ret |-> (epc_bits \div 8) - 4, raised |-> FALSE]

\* get_tag_epc_bytes(), lines 526-532; raised is the IndexError of reading
\* msg[27 + tag_data_bytes] or msg[28 + tag_data_bytes] beyond the buffer
get_tag_epc_bytes(m) ==
  LET tag_data_bytes == get_tag_data_bytes(m)
  IN  IF 28 + tag_data_bytes >= MAX_MSG_SIZE
      THEN [ret |-> -1, raised |-> TRUE]
      ELSE LET epc_bits == BitOr(B(m, 27 + tag_data_bytes) * 256,
                                 B(m, 28 + tag_data_bytes))
           IN  [ret |-> (epc_bits \div 8) - 4, raised |-> FALSE]

\* examples/example1_constant_read.py, lines 107-110: the EPC the example
\* reports for the frame in the buffer, rfid.msg[31 : 31 + epc_bytes]
tag_epc(m) ==
  LET epc_bytes == get_tag_epc_bytes(m)
  IN  IF epc_bytes.raised THEN [ret |-> << >>, raised |-> TRUE]
      ELSE [ret |-> Slice(m, 31, 31 + epc_bytes.ret), raised |-> FALSE]

(***************************************************************************)
(* read_data / write_data / kill_tag                                       *)
(***************************************************************************)
\* the 4 address bytes, most significant first
AddressBytes(address) ==
  << (address \div 16777216) % 256, (address \div 65536) % 256,
     (address \div 256) % 256, address % 256 >>

\* the 2 timeout bytes, most significant first
TimeoutBytes(timeout) == << (timeout \div 256) % 256, timeout % 256 >>

\* lines 388-400
ReadDataPayload(bank, address, timeout) ==
  TimeoutBytes(timeout) \o << 16, 0, 0, bank >> \o AddressBytes(address) \o << 0 >>

\* lines 429-440
WriteDataPayload(bank, address, data_to_write, timeout) ==
  TimeoutBytes(timeout) \o << 0 >> \o AddressBytes(address) \o << bank >>
    \o data_to_write

\* lines 465-472
KillTagPayload(password, timeout) ==
  TimeoutBytes(timeout) \o << 0 >> \o password \o << 0 >>

\* read_data returning all the data of the response, which C9 tells from
\* the slice of the code
ReadDataResultAllData(m) ==
  IF B(m, 0) = ALL_GOOD /\ BitOr(B(m, 3) * 256, B(m, 4)) = 0
  THEN << RESPONSE_SUCCESS, Slice(m, 5, 5 + B(m, 1)) >>
  ELSE << RESPONSE_FAIL, << >> >>

\* lines 405-413: what read_data returns from the buffer the transaction left
ReadDataResult(m) ==
  IF B(m, 0) = ALL_GOOD /\ BitOr(B(m, 3) * 256, B(m, 4)) = 0
  THEN << RESPONSE_SUCCESS, Slice(m, 8, 8 + (B(m, 1) - 3)) >>
  ELSE << RESPONSE_FAIL, << >> >>

\* the result decided by the status word alone, which C14 tells from the
\* test of msg[0] of the code
StatusResultByStatusWord(m) ==
  IF BitOr(B(m, 3) * 256, B(m, 4)) = 0
  THEN RESPONSE_SUCCESS
  ELSE RESPONSE_FAIL

\* lines 444-450 and 476-482: what write_data and kill_tag return
StatusResult(m) ==
  IF B(m, 0) = ALL_GOOD /\ BitOr(B(m, 3) * 256, B(m, 4)) = 0
  THEN RESPONSE_SUCCESS
  ELSE RESPONSE_FAIL

read_data(m, isopen, debug, q, bank, address, timeout, resp, k) ==
  Bind(send_message(m, isopen, debug, q, TMR_SR_OPCODE_READ_TAG_DATA,
                    ReadDataPayload(bank, address, timeout), TRUE, resp, k),
       LAMBDA t :
         [msg |-> t.msg, rx |-> t.rx, wrote |-> t.wrote, raised |-> t.raised,
          printed |-> t.printed,
          ret |-> IF t.raised THEN << -1, << >> >> ELSE ReadDataResult(t.msg)])

write_data(m, isopen, debug, q, bank, address, data_to_write, timeout, resp, k) ==
  Bind(send_message(m, isopen, debug, q, TMR_SR_OPCODE_WRITE_TAG_DATA,
                    WriteDataPayload(bank, address, data_to_write, timeout),
                    TRUE, resp, k),
       LAMBDA t :
         [msg |-> t.msg, rx |-> t.rx, wrote |-> t.wrote, raised |-> t.raised,
          printed |-> t.printed,
          ret |-> IF t.raised THEN -1 ELSE StatusResult(t.msg)])

kill_tag(m, isopen, debug, q, password, timeout, resp, k) ==
  Bind(send_message(m, isopen, debug, q, TMR_SR_OPCODE_KILL_TAG,
                    KillTagPayload(password, timeout), TRUE, resp, k),
       LAMBDA t :
         [msg |-> t.msg, rx |-> t.rx, wrote |-> t.wrote, raised |-> t.raised,
          printed |-> t.printed,
          ret |-> IF t.raised THEN -1 ELSE StatusResult(t.msg)])

\* the legacy code sent for REGION_NORTHAMERICA whatever the module is,
\* which C19 tells from the condition of the code
RegionForAnyModule(type, region) ==
  IF region = REGION_NORTHAMERICA THEN REGION_NORTHAMERICA2 ELSE region

\* set_region, lines 131-132: the region code that is sent
RegionSent(type, region) ==
  IF region = REGION_NORTHAMERICA /\ type = M6E_NANO
  THEN REGION_NORTHAMERICA2
  ELSE region

\* set_region(region) of a module of this type; bytes([region]) raises
\* ValueError for a value that is no byte
set_region(m, isopen, debug, q, type, region, resp, k) ==
  IF RegionSent(type, region) \notin Byte
  THEN [msg |-> m, rx |-> q, wrote |-> << >>, raised |-> TRUE,
        printed |-> << >>]
  ELSE send_message(m, isopen, debug, q, TMR_SR_OPCODE_SET_REGION,
                    << RegionSent(type, region) >>, TRUE, resp, k)

\* set_reader_configuration(option1, option2), lines 192-200
set_reader_configuration(m, isopen, debug, q, option1, option2, resp, k) ==
  send_message(m, isopen, debug, q, TMR_SR_OPCODE_SET_READER_OPTIONAL_PARAMS,
               << 1, option1, option2 >>, TRUE, resp, k)

\* disable_read_filter(), lines 187-189
disable_read_filter(m, isopen, debug, q, resp, k) ==
  set_reader_configuration(m, isopen, debug, q, 12, 0, resp, k)

\* the configuration blob of a continuous read, lines 165-168
ConfigBlob == << 0, 0, 1, 34, 0, 0, 5, 7, 34, 16, 0, 27, 3, 232, 1, 255 >>

\* start_reading(): two transactions.  The module sends resp1 after the
\* first command was written and resp2 after the second; k1 and k2 of their
\* bytes arrive before the timeouts.  wrote is what was written to the port,
\* in order, and first the value of msg[0] after the first transaction; an
\* exception raised by the first transaction ends the call.
start_reading(m, isopen, debug, q, resp1, k1, resp2, k2) ==
  Bind(disable_read_filter(m, isopen, debug, q, resp1, k1), LAMBDA d :
    IF d.raised
    THEN [msg |-> d.msg, rx |-> d.rx, wrote |-> d.wrote, raised |-> TRUE,
          printed |-> d.printed, first |-> B(d.msg, 0)]
    ELSE Bind(send_message(d.msg, isopen, debug, d.rx,
                           TMR_SR_OPCODE_MULTI_PROTOCOL_TAG_OP, ConfigBlob,
                           TRUE, resp2, k2), LAMBDA s :
           [msg |-> s.msg, rx |-> s.rx, wrote |-> d.wrote \o s.wrote,
            raised |-> s.raised, printed |-> d.printed \o s.printed,
            first |-> B(d.msg, 0)]))

(***************************************************************************)
(* The module on the other end of the serial link                          *)
(***************************************************************************)
\* a frame as the module sends it: header, length of data, opcode, the
\* 2-byte status word, data, and the CRC over everything but the header
RespFrame(opcode, status, data) ==
  LET body == << Len(data), opcode, status \div 256, status % 256 >> \o data
      crc == calculate_crc(body)
  IN  << HEADER >> \o body \o << crc \div 256, crc % 256 >>

\* the byte sequence f with the byte at position i (from 1) replaced by v
Replace(f, i, v) == [f EXCEPT ![i] = v]


VARIABLES
  msg,          \* self.msg, the bytearray of MAX_MSG_SIZE bytes
  head,         \* self._head, the cursor of check()
  serial_port,  \* TRUE when self.serial_port is an open port, FALSE when None
  module_type,  \* self.module_type
  rx,           \* the bytes the port holds (in_waiting of them), oldest first
  mem,          \* the tag memory of the module on the other end of the link
  stored,       \* bookkeeping of check(): see CheckStep
  last,         \* the last call: its arguments, what it returned and wrote
  timedout,     \* bookkeeping: a transaction timed out without a byte arriving
  calls,        \* the transactions and arrivals so far
  print_debug,  \* rfid._print_debug
  is_open,      \* rfid.serial_port.is_open, of a port that was opened
  main          \* where the main() of a reading session is, and how it left
                \* its try block

vars ==
  << msg, head, serial_port, module_type, rx, mem, stored, last, timedout, calls,
     print_debug, is_open, main >>

\* the transactions and arrivals of one behaviour
MaxCalls == 2

\* what a call does to the reader and to the port, and what it returns,
\* when debugging is disabled; kept for the calls made while it is enabled
QuietCheck(c) ==
  IF print_debug
  THEN [msg |-> c.msg, head |-> c.head, rx |-> c.rx, wrote |-> << >>,
        ret |-> c.ret, raised |-> c.raised]
  ELSE << >>

QuietCall(t) ==
  IF print_debug
  THEN [msg |-> t.msg, head |-> head, rx |-> t.rx, wrote |-> t.wrote,
        ret |-> IF "ret" \in DOMAIN t THEN t.ret ELSE << >>,
        raised |-> t.raised]
  ELSE << >>

NoCall ==
  [op |-> "new", opcode |-> -1, data |-> << >>, wait |-> FALSE,
   resp |-> << >>, k |-> 0, ret |-> << >>, raised |-> FALSE,
   wrote |-> << >>, open |-> FALSE, held |-> << >>, buf |-> << >>,
   first |-> -1, printed |-> << >>, quiet |-> << >>]

\* the memory banks and word addresses of the tag that the module serves
Banks == { 1, 3 }
Addresses == { 0, 2 }

\* __init__; the tag's memory is empty
Init ==
  /\ msg = ZeroMsg
  /\ head = 0
  /\ serial_port = FALSE
  /\ module_type = M6E_NANO
  /\ rx = << >>
  /\ mem = [ba \in Banks \X Addresses |-> << >>]
  /\ stored = << >>
  /\ last = NoCall
  /\ timedout = FALSE
  /\ calls = 0
  /\ print_debug = FALSE
  /\ is_open = FALSE
  /\ main = [pc |-> "start", left |-> "none"]

\* begin(port, baudrate, module_type): the port is opened and what it holds
\* is read away
BeginWith(type) ==
  /\ ~serial_port
  /\ serial_port' = TRUE
  /\ is_open' = TRUE
  /\ module_type' = type
  /\ rx' = << >>
  /\ last' = [NoCall EXCEPT !.op = "begin"]
  /\ UNCHANGED << print_debug, main, msg, head, mem, stored, timedout, calls >>

\* begin(port): module_type has its default
Begin == BeginWith(M6E_NANO)

\* enable_debugging(), lines 66-68
EnableDebugging ==
  /\ ~print_debug
  /\ print_debug' = TRUE
  /\ last' = [NoCall EXCEPT !.op = "enable_debugging"]
  /\ UNCHANGED << is_open, main, msg, head, serial_port, module_type, rx, mem,
                  stored, timedout, calls >>

\* disable_debugging(), lines 70-72
DisableDebugging ==
  /\ print_debug
  /\ print_debug' = FALSE
  /\ last' = [NoCall EXCEPT !.op = "disable_debugging"]
  /\ UNCHANGED << is_open, main, msg, head, serial_port, module_type, rx, mem,
                  stored, timedout, calls >>

\* the module sends the bytes s on its own (tag reports, keepalives, noise)
Arrive(s) ==
  /\ serial_port
  /\ rx = << >>
  /\ calls < MaxCalls
  /\ calls' = calls + 1
  /\ rx' = s
  /\ last' = [NoCall EXCEPT !.op = "arrive", !.resp = s, !.open = TRUE]
  /\ UNCHANGED << print_debug, is_open, main, module_type, msg, head, serial_port, mem, stored, timedout >>

\* check(); last keeps what the port held, where the cursor was and what the
\* buffer held at the call
Check ==
  \E c \in { check(msg, head, stored, serial_port, print_debug, rx) } :
      /\ msg' = c.msg
      /\ head' = c.head
      /\ rx' = c.rx
      /\ stored' = c.stored
      /\ last' = [NoCall EXCEPT !.op = "check", !.ret = c.ret, !.resp = rx,
                                !.k = head, !.open = serial_port,
                                !.buf = msg, !.raised = c.raised,
                                !.printed = c.printed,
                                !.quiet = QuietCheck(
                                  check(msg, head, stored, serial_port,
                                        FALSE, rx))]
      /\ UNCHANGED << print_debug, is_open, main, module_type, serial_port, mem, timedout, calls >>

\* parse_response()
ParseResponse ==
  \E p \in { parse_response(msg) } :
      /\ last' = [NoCall EXCEPT !.op = "parse", !.ret = p.ret,
                                !.raised = p.raised,
                                !.open = serial_port]
      /\ UNCHANGED << print_debug, is_open, main, module_type, msg, head, serial_port, rx, mem, stored, timedout, calls >>

\* get_tag_rssi()
GetTagRssi ==
  /\ last' = [NoCall EXCEPT !.op = "rssi", !.ret = get_tag_rssi(msg),
                            !.open = serial_port]
  /\ UNCHANGED << print_debug, is_open, main, module_type, msg, head, serial_port, rx, mem, stored, timedout, calls >>

\* get_tag_freq()
GetTagFreq ==
  /\ last' = [NoCall EXCEPT !.op = "freq", !.ret = get_tag_freq(msg),
                            !.open = serial_port]
  /\ UNCHANGED << print_debug, is_open, main, module_type, msg, head, serial_port, rx, mem, stored, timedout, calls >>

\* get_tag_timestamp()
GetTagTimestamp ==
  /\ last' = [NoCall EXCEPT !.op = "timestamp", !.ret = get_tag_timestamp(msg),
                            !.open = serial_port]
  /\ UNCHANGED << print_debug, is_open, main, module_type, msg, head, serial_port, rx, mem, stored, timedout, calls >>

\* get_tag_data_bytes()
GetTagDataBytes ==
  /\ last' = [NoCall EXCEPT !.op = "data_bytes", !.ret = get_tag_data_bytes(msg),
                            !.open = serial_port]
  /\ UNCHANGED << print_debug, is_open, main, module_type, msg, head, serial_port, rx, mem, stored, timedout, calls >>

\* get_tag_epc_bytes()
GetTagEpcBytes ==
  \E e \in { get_tag_epc_bytes(msg) } :
    /\ last' = [NoCall EXCEPT !.op = "epc_bytes", !.ret = e.ret,
                              !.raised = e.raised, !.open = serial_port]
    /\ UNCHANGED << print_debug, is_open, main, module_type, msg, head, serial_port, rx, mem, stored, timedout, calls >>

\* the example's report of a tag's EPC
TagEpc ==
  \E e \in { tag_epc(msg) } :
    /\ last' = [NoCall EXCEPT !.op = "epc", !.ret = e.ret,
                              !.raised = e.raised, !.open = serial_port]
    /\ UNCHANGED << print_debug, is_open, main, module_type, msg, head, serial_port, rx, mem, stored, timedout, calls >>

\* a transaction that waited on an open port and got no byte in time
NoAnswer(wait_for_response, k, raised) ==
  serial_port /\ wait_for_response /\ k = 0 /\ ~raised

\* send_message(opcode, data, timeout, wait_for_response); the module answers
\* resp, of which k bytes are delivered before the timeout
SendMessage(opcode, data, wait_for_response, resp, k) ==
  /\ calls < MaxCalls
  /\ \E t \in { send_message(msg, serial_port, print_debug, rx, opcode, data, wait_for_response,
                        resp, k) } :
      /\ calls' = calls + 1
      /\ msg' = t.msg
      /\ rx' = t.rx
      /\ last' = [NoCall EXCEPT !.op = "send", !.opcode = opcode, !.data = data,
                                !.wait = wait_for_response, !.resp = resp,
                                !.k = k, !.raised = t.raised, !.wrote = t.wrote,
                                !.open = serial_port, !.held = rx,
                                !.printed = t.printed,
                                !.quiet = QuietCall(
                                  send_message(msg, serial_port, FALSE, rx, opcode, data, wait_for_response, resp, k))]
      /\ timedout' = (timedout \/ NoAnswer(wait_for_response, k, t.raised))
      /\ UNCHANGED << print_debug, is_open, main, module_type, head, serial_port, mem, stored >>

\* read_data(bank, address, timeout)
ReadData(bank, address, timeout, resp, k) ==
  /\ calls < MaxCalls
  /\ \E t \in { read_data(msg, serial_port, print_debug, rx, bank, address, timeout, resp, k) } :
      /\ calls' = calls + 1
      /\ msg' = t.msg
      /\ rx' = t.rx
      /\ last' = [NoCall EXCEPT !.op = "read",
                                !.opcode = TMR_SR_OPCODE_READ_TAG_DATA,
                                !.data = << bank, address, timeout >>,
                                !.wait = TRUE, !.resp = resp, !.k = k,
                                !.ret = t.ret, !.raised = t.raised,
                                !.wrote = t.wrote,
                                !.open = serial_port, !.held = rx,
                                !.printed = t.printed,
                                !.quiet = QuietCall(
                                  read_data(msg, serial_port, FALSE, rx, bank, address, timeout, resp, k))]
      /\ timedout' = (timedout \/ NoAnswer(TRUE, k, t.raised))
      /\ UNCHANGED << print_debug, is_open, main, module_type, head, serial_port, mem, stored >>

\* write_data(bank, address, data_to_write, timeout); what the module does
\* to the tag's memory is the module's part of the step
WriteData(bank, address, data_to_write, timeout, resp, k) ==
  /\ calls < MaxCalls
  /\ \E t \in { write_data(msg, serial_port, print_debug, rx, bank, address, data_to_write,
                      timeout, resp, k) } :
      /\ calls' = calls + 1
      /\ msg' = t.msg
      /\ rx' = t.rx
      /\ last' = [NoCall EXCEPT !.op = "write",
                                !.opcode = TMR_SR_OPCODE_WRITE_TAG_DATA,
                                !.data = << bank, address, timeout, data_to_write >>,
                                !.wait = TRUE, !.resp = resp, !.k = k,
                                !.ret = t.ret, !.raised = t.raised,
                                !.wrote = t.wrote,
                                !.open = serial_port, !.held = rx,
                                !.printed = t.printed,
                                !.quiet = QuietCall(
                                  write_data(msg, serial_port, FALSE, rx, bank, address, data_to_write, timeout, resp, k))]
      /\ timedout' = (timedout \/ NoAnswer(TRUE, k, t.raised))
      /\ UNCHANGED << print_debug, is_open, main, module_type, head, serial_port, stored >>

\* kill_tag(password, timeout)
KillTag(password, timeout, resp, k) ==
  /\ calls < MaxCalls
  /\ \E t \in { kill_tag(msg, serial_port, print_debug, rx, password, timeout, resp, k) } :
      /\ calls' = calls + 1
      /\ msg' = t.msg
      /\ rx' = t.rx
      /\ last' = [NoCall EXCEPT !.op = "kill",
                                !.opcode = TMR_SR_OPCODE_KILL_TAG,
                                !.data = << password, timeout >>,
                                !.wait = TRUE, !.resp = resp, !.k = k,
                                !.ret = t.ret, !.raised = t.raised,
                                !.wrote = t.wrote,
                                !.open = serial_port, !.held = rx,
                                !.printed = t.printed,
                                !.quiet = QuietCall(
                                  kill_tag(msg, serial_port, FALSE, rx, password, timeout, resp, k))]
      /\ timedout' = (timedout \/ NoAnswer(TRUE, k, t.raised))
      /\ UNCHANGED << print_debug, is_open, main, module_type, head, serial_port, mem, stored >>

\* set_region(region)
SetRegion(region, resp, k) ==
  /\ calls < MaxCalls
  /\ \E t \in { set_region(msg, serial_port, print_debug, rx, module_type, region, resp, k) } :
      /\ calls' = calls + 1
      /\ msg' = t.msg
      /\ rx' = t.rx
      /\ last' = [NoCall EXCEPT !.op = "region",
                                !.opcode = TMR_SR_OPCODE_SET_REGION,
                                !.data = << region >>,
                                !.wait = TRUE, !.resp = resp, !.k = k,
                                !.raised = t.raised, !.wrote = t.wrote,
                                !.open = serial_port, !.held = rx,
                                !.printed = t.printed,
                                !.quiet = QuietCall(
                                  set_region(msg, serial_port, FALSE, rx, module_type, region, resp, k))]
      /\ timedout' = (timedout \/ NoAnswer(TRUE, k, t.raised))
      /\ UNCHANGED << print_debug, is_open, main, module_type, head, serial_port, mem, stored >>

\* start_reading(); last.resp and last.k are the answer to the first
\* command, last.first the outcome of the first transaction
StartReading(resp1, k1, resp2, k2) ==
  /\ calls < MaxCalls
  /\ \E t \in { start_reading(msg, serial_port, print_debug, rx, resp1, k1, resp2, k2) } :
      /\ calls' = calls + 1
      /\ msg' = t.msg
      /\ rx' = t.rx
      /\ last' = [NoCall EXCEPT !.op = "start_reading",
                                !.opcode = TMR_SR_OPCODE_MULTI_PROTOCOL_TAG_OP,
                                !.data = ConfigBlob,
                                !.wait = TRUE, !.resp = resp1, !.k = k1,
                                !.raised = t.raised, !.wrote = t.wrote,
                                !.open = serial_port, !.held = rx,
                                !.first = t.first,
                                !.printed = t.printed,
                                !.quiet = QuietCall(
                                  start_reading(msg, serial_port, FALSE, rx, resp1, k1, resp2, k2))]
      /\ timedout' = (timedout \/ NoAnswer(TRUE, k1, t.raised)
                                \/ NoAnswer(TRUE, k2, t.raised))
      /\ UNCHANGED << print_debug, is_open, main, module_type, head, serial_port, mem, stored >>

(***************************************************************************)
(* Transactions: what the module may answer to a command                   *)
(***************************************************************************)
\* an opcode other than the request's
OtherOpcode(opcode) ==
  IF opcode = TMR_SR_OPCODE_VERSION THEN TMR_SR_OPCODE_READ_TAG_ID_MULTIPLE
  ELSE TMR_SR_OPCODE_VERSION

\* the last byte of f changed: a frame whose CRC does not match
BadCrc(f) == Replace(f, Len(f), (f[Len(f)] + 1) % 256)

\* status words: success, and "no tag found"
StatusWords == { 0, 1024 }

\* data carried by an answer
AnswerData == { << >>, << 1, 2, 3, 171, 205 >> }

\* length byte 249: a frame of 256 bytes, one more than the buffer holds
TooLong == << HEADER, 249 >> \o Zeros(254)

\* the longest frame the buffer holds: MAX_MSG_SIZE bytes
Longest(opcode) == RespFrame(opcode, 0, Zeros(MAX_MSG_SIZE - 7))

\* well-formed answers to the request opcode
GoodAnswers(opcode) ==
  { RespFrame(opcode, st, d) : st \in StatusWords, d \in AnswerData }

\* everything the module may send after a command with this opcode: the
\* well-formed answers, a wrong CRC, another opcode (with a right and with a
\* wrong CRC), no header byte, two frames in a row, a frame that is too long
Answers(opcode) ==
  GoodAnswers(opcode)
    \cup { BadCrc(RespFrame(opcode, 0, << 1, 2, 3, 171, 205 >>)),
           RespFrame(OtherOpcode(opcode), 0, << >>),
           BadCrc(RespFrame(OtherOpcode(opcode), 0, << >>)),
           Replace(RespFrame(opcode, 0, << >>), 1, 0),
           RespFrame(opcode, 0, << >>) \o RespFrame(opcode, 1024, << >>),
           TooLong }
    \cup (IF opcode = TMR_SR_OPCODE_VERSION THEN { Longest(opcode) } ELSE { })

\* an answer and the number of its bytes that arrive before the timeout:
\* every answer in full, and one answer not at all, or cut short
Deliveries(opcode) ==
  { << resp, Len(resp) >> : resp \in Answers(opcode) }
    \cup { << RespFrame(opcode, 0, << 1, 2, 3, 171, 205 >>), k >> : k \in { 0, 1, 4 } }

\* the same, for the calls that look at the status word only
StatusDeliveries(opcode) ==
  { << resp, Len(resp) >> :
      resp \in { RespFrame(opcode, 0, << >>), RespFrame(opcode, 1024, << >>),
                 BadCrc(RespFrame(opcode, 0, << >>)),
                 RespFrame(OtherOpcode(opcode), 0, << >>), TooLong } }
    \cup { << RespFrame(opcode, 0, << >>), 0 >> }

\* the deliveries after the opcodes that are sent, each computed once
DeliveriesTo ==
  [opcode \in { TMR_SR_OPCODE_VERSION, TMR_SR_OPCODE_READ_TAG_DATA,
                TMR_SR_OPCODE_WRITE_TAG_DATA, TMR_SR_OPCODE_KILL_TAG }
     |-> IF opcode \in { TMR_SR_OPCODE_WRITE_TAG_DATA, TMR_SR_OPCODE_KILL_TAG }
         THEN StatusDeliveries(opcode) ELSE Deliveries(opcode)]

\* memory banks and addresses used by the callers (read_tag_epc,
\* read_user_data), and the bytes written there
BankAddresses == { << 1, 2 >>, << 3, 0 >> }
Writes == { << 1, 2, << 171, 205 >> >>, << 3, 0, << >> >> }

\* a kill password
Passwords == { << 0, 0, 0, 1 >> }

\* get_version(), and stop_reading(), which does not wait for the answer
TxnSend ==
  \/ \E d \in DeliveriesTo[TMR_SR_OPCODE_VERSION] :
       SendMessage(TMR_SR_OPCODE_VERSION, << >>, TRUE, d[1], d[2])
  \/ SendMessage(TMR_SR_OPCODE_MULTI_PROTOCOL_TAG_OP, << 0, 0, 2 >>, FALSE,
                 RespFrame(TMR_SR_OPCODE_MULTI_PROTOCOL_TAG_OP, 0, << >>), 0)

TxnRead ==
  \E ba \in BankAddresses, d \in DeliveriesTo[TMR_SR_OPCODE_READ_TAG_DATA] :
    ReadData(ba[1], ba[2], COMMAND_TIME_OUT, d[1], d[2])

TxnWrite ==
  \E w \in Writes, d \in DeliveriesTo[TMR_SR_OPCODE_WRITE_TAG_DATA] :
    /\ WriteData(w[1], w[2], w[3], COMMAND_TIME_OUT, d[1], d[2])
    /\ UNCHANGED mem

TxnKill ==
  \E pw \in Passwords, d \in DeliveriesTo[TMR_SR_OPCODE_KILL_TAG] :
    KillTag(pw, COMMAND_TIME_OUT, d[1], d[2])

NextTxn ==
  \/ Begin
  \/ TxnSend
  \/ TxnRead
  \/ TxnWrite
  \/ TxnKill

SpecTxn == Init /\ [][NextTxn]_vars

(***************************************************************************)
(* Calls before and after begin(), with several timeouts                   *)
(***************************************************************************)
\* timeouts given to read_data, write_data and kill_tag, in milliseconds
Timeouts == { 0, COMMAND_TIME_OUT, 70000 }

\* the module's answer of status word 0x0000 to a command of this opcode,
\* in time
Answered(opcode) == RespFrame(opcode, 0, << 16, 0, 0, 171, 205 >>)

CallVersion ==
  SendMessage(TMR_SR_OPCODE_VERSION, << >>, TRUE,
              Answered(TMR_SR_OPCODE_VERSION), 12)

CallRead ==
  \E timeout \in Timeouts :
    ReadData(1, 2, timeout, Answered(TMR_SR_OPCODE_READ_TAG_DATA), 12)

CallWrite ==
  \E timeout \in Timeouts :
    /\ WriteData(3, 0, << 171, 205 >>, timeout,
                 Answered(TMR_SR_OPCODE_WRITE_TAG_DATA), 12)
    /\ UNCHANGED mem

CallKill ==
  \E timeout \in Timeouts :
    KillTag(<< 0, 0, 0, 1 >>, timeout, Answered(TMR_SR_OPCODE_KILL_TAG), 12)

NextCalls ==
  \/ Begin
  \/ CallVersion
  \/ CallRead
  \/ CallWrite
  \/ CallKill

SpecCalls == Init /\ [][NextCalls]_vars

(***************************************************************************)
(* Payloads of every length                                                *)
(***************************************************************************)
\* the longest payload that fits the buffer with header, length, opcode and
\* CRC
LargestPayload == MAX_MSG_SIZE - 5

\* n bytes 0xAA
Filled(n) == [i \in 1 .. n |-> 170] \o << >>

\* opcodes and payloads: none, ten bytes, the longest that fits, and longer
\* ones, up to one whose length is no byte
Payloads ==
  { << TMR_SR_OPCODE_VERSION, << >> >>,
    << TMR_SR_OPCODE_WRITE_TAG_DATA, << >> >>,
    << TMR_SR_OPCODE_MULTI_PROTOCOL_TAG_OP, << 0, 0, 2 >> >>,
    << TMR_SR_OPCODE_WRITE_TAG_DATA, << 7, 208, 0, 0, 0, 0, 0, 3, 171, 205 >> >> }
    \cup { << TMR_SR_OPCODE_VERSION, Filled(n) >> :
             n \in { LargestPayload, LargestPayload + 1, LargestPayload + 2,
                     LargestPayload + 3, 256 } }

\* send_message(opcode, payload), answered in time
SendPayload ==
  \E p \in Payloads :
    SendMessage(p[1], p[2], TRUE, RespFrame(p[1], 0, << >>), 7)

NextPayload ==
  \/ Begin
  \/ SendPayload

SpecPayload == Init /\ [][NextPayload]_vars

(***************************************************************************)
(* set_region on either module                                             *)
(***************************************************************************)
\* the region codes
Regions ==
  { REGION_NORTHAMERICA, REGION_NORTHAMERICA2, REGION_EUROPE, REGION_INDIA,
    REGION_JAPAN, REGION_CHINA, REGION_KOREA, REGION_AUSTRALIA,
    REGION_NEWZEALAND, REGION_OPEN }

\* begin(port, baudrate, module_type) for either module
BeginAs == \E type \in ModuleType : BeginWith(type)

\* set_region, answered or not
TxnRegion ==
  \E region \in Regions, k \in { 0, 7 } :
    SetRegion(region, RespFrame(TMR_SR_OPCODE_SET_REGION, 0, << >>), k)

NextRegion ==
  \/ BeginAs
  \/ TxnRegion

SpecRegion == Init /\ [][NextRegion]_vars

(***************************************************************************)
(* Listening: what the module sends on its own during a continuous read    *)
(***************************************************************************)
\* the data of a tag report: rssi at offset 12 of the frame, the frequency
\* at 14..16, the timestamp at 17..20, the EPC from offset 31
TagReport(rssi, freq, timestamp, epc) ==
  << 16, 0, 27, 1, 255, 1, 1 >> \o << rssi, 17 >> \o freq \o timestamp
    \o << 0, 0, 5 >> \o << 0, 0, 15 >>
    \o << (8 * (Len(epc) + 4)) \div 256, (8 * (Len(epc) + 4)) % 256 >>
    \o << 48, 0 >> \o epc \o << 21, 69 >>

AnEpc == << 226, 0, 0, 23, 34, 10, 1, 68, 21, 64, 169, 255 >>

TagReports ==
  { TagReport(200, << 18, 52, 86 >>, << 0, 0, 1, 39 >>, AnEpc),
    TagReport(0, << 0, 0, 0 >>, << 0, 0, 0, 0 >>, << >>),
    TagReport(255, << 255, 255, 255 >>, << 255, 255, 255, 255 >>, AnEpc),
    TagReport(196, << 14, 22, 64 >>, << 128, 0, 255, 1 >>, << 1, 2 >>) }

TagFrame(report) == RespFrame(TMR_SR_OPCODE_READ_TAG_ID_MULTIPLE, 0, report)

KeepAlive == RespFrame(TMR_SR_OPCODE_READ_TAG_ID_MULTIPLE, 1024, << >>)

\* the frames of a continuous read: keepalive, temperature throttle, high
\* return loss, another status, lengths 8 and 10, tag reports, a short
\* report, another opcode, a wrong CRC, and lengths 247, 248 and 249
ListenFrames ==
  { KeepAlive,
    RespFrame(TMR_SR_OPCODE_READ_TAG_ID_MULTIPLE, 1284, << >>),
    RespFrame(TMR_SR_OPCODE_READ_TAG_ID_MULTIPLE, 1285, << >>),
    RespFrame(TMR_SR_OPCODE_READ_TAG_ID_MULTIPLE, 0, << >>),
    RespFrame(TMR_SR_OPCODE_READ_TAG_ID_MULTIPLE, 1024, Zeros(8)),
    RespFrame(TMR_SR_OPCODE_READ_TAG_ID_MULTIPLE, 0, Zeros(10)),
    RespFrame(TMR_SR_OPCODE_READ_TAG_ID_MULTIPLE, 0, << 7 >>),
    RespFrame(TMR_SR_OPCODE_VERSION, 0, << 1, 2 >>),
    BadCrc(KeepAlive),
    BadCrc(TagFrame(TagReport(200, << 18, 52, 86 >>, << 0, 0, 1, 39 >>, AnEpc))),
    RespFrame(TMR_SR_OPCODE_READ_TAG_ID_MULTIPLE, 0, Zeros(MAX_MSG_SIZE - 8)),
    Longest(TMR_SR_OPCODE_READ_TAG_ID_MULTIPLE),
    RespFrame(TMR_SR_OPCODE_READ_TAG_ID_MULTIPLE, 0, Zeros(MAX_MSG_SIZE - 6)) }
    \cup { TagFrame(r) : r \in TagReports }

\* what arrives between two calls: a frame, noise and then a frame, two
\* frames, the first bytes of a frame, the rest of it
Streams ==
  ListenFrames
    \cup { << 1, 2 >> \o KeepAlive,
           KeepAlive \o TagFrame(TagReport(0, << 0, 0, 0 >>, << 0, 0, 0, 0 >>, << >>)),
           Part(TagFrame(TagReport(200, << 18, 52, 86 >>, << 0, 0, 1, 39 >>, AnEpc)),
                1, 10),
           Part(TagFrame(TagReport(200, << 18, 52, 86 >>, << 0, 0, 1, 39 >>, AnEpc)),
                11, MAX_MSG_SIZE) }

Listen == \E s \in Streams : Arrive(s)

NextListen ==
  \/ Begin
  \/ Listen
  \/ Check
  \/ ParseResponse
  \/ GetTagRssi
  \/ GetTagFreq
  \/ GetTagTimestamp

SpecListen == Init /\ [][NextListen]_vars

(***************************************************************************)
(* start_reading                                                           *)
(***************************************************************************)
\* what the module may send after the filter command: the answer, an answer
\* with a status word other than 0, with a wrong CRC, of another opcode, a
\* frame that is too long; each in full, and the answer not at all
FilterDeliveries ==
  { << resp, Len(resp) >> :
      resp \in { RespFrame(TMR_SR_OPCODE_SET_READER_OPTIONAL_PARAMS, 0, << >>),
                 RespFrame(TMR_SR_OPCODE_SET_READER_OPTIONAL_PARAMS, 261, << >>),
                 BadCrc(RespFrame(TMR_SR_OPCODE_SET_READER_OPTIONAL_PARAMS, 0, << >>)),
                 RespFrame(TMR_SR_OPCODE_VERSION, 0, << >>),
                 TooLong } }
    \cup { << RespFrame(TMR_SR_OPCODE_SET_READER_OPTIONAL_PARAMS, 0, << >>), 0 >> }

\* what the module may send after the continuous-read command: the answer
\* in full or not at all, or a keepalive of the read that has started
ReadDeliveries ==
  { << RespFrame(TMR_SR_OPCODE_MULTI_PROTOCOL_TAG_OP, 0, << >>), 8 >>,
    << RespFrame(TMR_SR_OPCODE_MULTI_PROTOCOL_TAG_OP, 0, << >>), 0 >>,
    << KeepAlive, 7 >> }

TxnStart ==
  \E d1 \in FilterDeliveries, d2 \in ReadDeliveries :
    StartReading(d1[1], d1[2], d2[1], d2[2])

NextStart ==
  \/ Begin
  \/ TxnStart
  \/ Check
  \/ ParseResponse

SpecStart == Init /\ [][NextStart]_vars

(***************************************************************************)
(* Tag reports with embedded tag data                                      *)
(***************************************************************************)
\* the data of a tag report that embeds tag data: the bit count of the
\* embedded data at offsets 24..25 of the frame, the embedded bytes from
\* offset 26, one byte, the bit count of PC word, EPC and tag CRC, the PC
\* word, the EPC and the tag CRC
TagReportWith(rssi, freq, timestamp, bits, embedded, epc) ==
  << 16, 0, 27, 1, 255, 1, 1 >> \o << rssi, 17 >> \o freq \o timestamp
    \o << 0, 0, 5 >> \o << bits \div 256, bits % 256 >> \o embedded \o << 15 >>
    \o << (8 * (Len(epc) + 4)) \div 256, (8 * (Len(epc) + 4)) % 256 >>
    \o << 48, 0 >> \o epc \o << 21, 69 >>

\* embedded tag data: the bit count and the bytes that hold the bits
EmbeddedData ==
  { << 0, << >> >>, << 1, << 128 >> >>, << 8, << 171 >> >>,
    << 9, << 171, 128 >> >>, << 16, << 171, 205 >> >> }

\* the EPCs of the tags
Epcs == { AnEpc, << 1, 2 >> }

\* the tag reports of a continuous read that embeds tag data, each with the
\* frame that carries it
Reports ==
  { [bits |-> x[1][1], embedded |-> x[1][2], epc |-> x[2],
     frame |-> TagFrame(TagReportWith(200, << 18, 52, 86 >>, << 0, 0, 1, 39 >>,
                                      x[1][1], x[1][2], x[2]))] :
      x \in EmbeddedData \X Epcs }

\* frames that parse_response takes for tag reports and that end before the
\* fields of one: one byte of data, the data up to the RSSI, up to the
\* timestamp, up to the bit count of the embedded data, and reports that
\* announce more embedded data than the frame, or the buffer, holds
ShortReports ==
  { RespFrame(TMR_SR_OPCODE_READ_TAG_ID_MULTIPLE, 0, << 7 >>),
    RespFrame(TMR_SR_OPCODE_READ_TAG_ID_MULTIPLE, 0,
              << 16, 0, 27, 1, 255, 1, 1, 200 >>),
    RespFrame(TMR_SR_OPCODE_READ_TAG_ID_MULTIPLE, 0,
              << 16, 0, 27, 1, 255, 1, 1, 200, 17, 18, 52, 86, 0, 0, 1, 39 >>),
    RespFrame(TMR_SR_OPCODE_READ_TAG_ID_MULTIPLE, 0,
              << 16, 0, 27, 1, 255, 1, 1, 200, 17, 18, 52, 86, 0, 0, 1, 39,
                 0, 0, 5, 0, 16 >>),
    TagFrame(TagReportWith(200, << 18, 52, 86 >>, << 0, 0, 1, 39 >>,
                           800, << >>, << 1, 2 >>)),
    TagFrame(TagReportWith(200, << 18, 52, 86 >>, << 0, 0, 1, 39 >>,
                           65535, << >>, << 1, 2 >>)) }

\* a frame of a continuous read arrives
ListenReports ==
  \E f \in { r.frame : r \in Reports } \cup ShortReports \cup { KeepAlive } :
    Arrive(f)

NextReport ==
  \/ Begin
  \/ ListenReports
  \/ Check
  \/ ParseResponse
  \/ GetTagRssi
  \/ GetTagFreq
  \/ GetTagTimestamp
  \/ GetTagDataBytes
  \/ GetTagEpcBytes
  \/ TagEpc

SpecReport == Init /\ [][NextReport]_vars

(***************************************************************************)
(* Noise and frames back to back                                           *)
(***************************************************************************)
\* bytes that are no header byte
Noise == { << 1, 2 >>, << 0, 254, 3 >> }

\* frames of a continuous read
StreamFrames ==
  { KeepAlive,
    RespFrame(TMR_SR_OPCODE_READ_TAG_ID_MULTIPLE, 1284, << >>),
    TagFrame(TagReport(196, << 14, 22, 64 >>, << 128, 0, 255, 1 >>, << 1, 2 >>)) }

\* what the port holds when check() is called: noise, noise and a header
\* byte, a header byte, noise and a frame, a frame, two frames back to back
InWaiting ==
  Noise
    \cup { n \o << HEADER >> : n \in Noise }
    \cup { << HEADER >> }
    \cup { n \o KeepAlive : n \in Noise }
    \cup StreamFrames
    \cup { x[1] \o x[2] : x \in { y \in StreamFrames \X StreamFrames : y[1] # y[2] } }

Stream == \E s \in InWaiting : Arrive(s)

NextStream ==
  \/ Begin
  \/ Stream
  \/ Check

SpecStream == Init /\ [][NextStream]_vars

(***************************************************************************)
(* Debugging enabled and disabled between the calls                        *)
(***************************************************************************)
\* answers to get_version() with one outcome each: a good one, a wrong CRC,
\* another opcode, none, one cut short, and one that is too long
DebugDeliveries ==
  { << RespFrame(TMR_SR_OPCODE_VERSION, 0, << 1, 2 >>), 9 >>,
    << BadCrc(RespFrame(TMR_SR_OPCODE_VERSION, 0, << 1, 2 >>)), 9 >>,
    << RespFrame(TMR_SR_OPCODE_READ_TAG_DATA, 0, << >>), 7 >>,
    << RespFrame(TMR_SR_OPCODE_VERSION, 0, << 1, 2 >>), 0 >>,
    << RespFrame(TMR_SR_OPCODE_VERSION, 0, << 1, 2 >>), 4 >>,
    << TooLong, 256 >> }

\* get_version(), and a command with the longest payload, whose answer is
\* not waited for
DebugSend ==
  \/ \E d \in DebugDeliveries :
       SendMessage(TMR_SR_OPCODE_VERSION, << >>, TRUE, d[1], d[2])
  \/ SendMessage(TMR_SR_OPCODE_WRITE_TAG_DATA, Filled(LargestPayload), FALSE,
                 << >>, 0)

\* what the module sends on its own: a keepalive, the start of one, and the
\* longest frame
DebugArrive ==
  \E s \in { KeepAlive, Part(KeepAlive, 1, 4),
              Longest(TMR_SR_OPCODE_READ_TAG_ID_MULTIPLE) } : Arrive(s)

\* the calls that print when debugging is enabled, with debugging enabled
\* and disabled between them
NextDebug ==
  \/ Begin
  \/ EnableDebugging
  \/ DisableDebugging
  \/ DebugSend
  \/ DebugArrive
  \/ Check

SpecDebug == Init /\ [][NextDebug]_vars

(***************************************************************************)
(* A reading session: the main() of the examples                           *)
(***************************************************************************)
\* serial_port.close() without the test of line 703, which C22 tells from
\* close()
CloseUnguarded(port, open) ==
  IF ~port
  THEN [is_open |-> open, raised |-> TRUE]
  ELSE [is_open |-> FALSE, raised |-> FALSE]

\* close(), lines 701-704: the port is closed if there is one and it is open
close(port, open) ==
  IF port /\ open
  THEN [is_open |-> FALSE, raised |-> FALSE]
  ELSE [is_open |-> open, raised |-> FALSE]

\* rfid.begin(...) in the try block (example1, line 70): the port is opened,
\* or serial.Serial raises and serial_port stays None
MainBegin ==
  /\ main.pc = "start"
  /\ ~serial_port
  /\ \E opened \in BOOLEAN :
       /\ serial_port' = opened
       /\ is_open' = opened
       /\ main' = IF opened THEN [main EXCEPT !.pc = "try"]
                            ELSE [pc |-> "except", left |-> "error"]
       /\ last' = [NoCall EXCEPT !.op = "begin", !.raised = ~opened]
  /\ rx' = << >>
  /\ UNCHANGED << print_debug, msg, head, module_type, mem, stored, timedout,
                  calls >>

\* answers to a command of the try block: a good one, none, and one that is
\* too long
SessionDeliveries ==
  { << RespFrame(TMR_SR_OPCODE_VERSION, 0, << 1, 2 >>), 9 >>,
    << RespFrame(TMR_SR_OPCODE_VERSION, 0, << 1, 2 >>), 0 >>,
    << TooLong, 256 >> }

\* a transaction of the try block (example1, lines 74-91); an exception
\* leaves the block for the handler of line 135
MainCall ==
  /\ main.pc = "try"
  /\ calls < MaxCalls
  /\ \E d \in SessionDeliveries :
     \E t \in { send_message(msg, serial_port, print_debug, rx,
                             TMR_SR_OPCODE_VERSION, << >>, TRUE, d[1], d[2]) } :
       /\ calls' = calls + 1
       /\ msg' = t.msg
       /\ rx' = t.rx
       /\ last' = [NoCall EXCEPT !.op = "send",
                                 !.opcode = TMR_SR_OPCODE_VERSION,
                                 !.wait = TRUE, !.resp = d[1], !.k = d[2],
                                 !.raised = t.raised, !.wrote = t.wrote,
                                 !.open = serial_port, !.held = rx,
                                 !.printed = t.printed]
       /\ timedout' = (timedout \/ NoAnswer(TRUE, d[2], t.raised))
       /\ main' = IF t.raised THEN [pc |-> "except", left |-> "error"]
                              ELSE main
  /\ UNCHANGED << print_debug, is_open, module_type, head, serial_port, mem,
                  stored >>

\* the module sends a keepalive, or the start of one, during the loop of
\* line 94
MainArrive ==
  /\ main.pc = "try"
  /\ \E s \in { KeepAlive, Part(KeepAlive, 1, 4) } : Arrive(s)

\* rfid.check() in the loop (example1, line 96)
MainCheck ==
  /\ main.pc = "try"
  /\ Check

\* Ctrl+C in the try block: the handler of line 130 is entered
MainInterrupt ==
  /\ main.pc \in { "start", "try" }
  /\ main' = [pc |-> "interrupt", left |-> "interrupt"]
  /\ last' = [NoCall EXCEPT !.op = "interrupt"]
  /\ UNCHANGED << print_debug, is_open, msg, head, serial_port, module_type,
                  rx, mem, stored, timedout, calls >>

\* rfid.stop_reading() in the handler of KeyboardInterrupt (example1, line
\* 132); whether it returns or raises, the finally clause is next
MainStop ==
  /\ main.pc = "interrupt"
  /\ \E t \in { send_message(msg, serial_port, print_debug, rx,
                             TMR_SR_OPCODE_MULTI_PROTOCOL_TAG_OP, << 0, 0, 2 >>,
                             FALSE, << >>, 0) } :
       /\ msg' = t.msg
       /\ rx' = t.rx
       /\ last' = [NoCall EXCEPT !.op = "stop_reading",
                                 !.opcode = TMR_SR_OPCODE_MULTI_PROTOCOL_TAG_OP,
                                 !.data = << 0, 0, 2 >>,
                                 !.raised = t.raised, !.wrote = t.wrote,
                                 !.open = serial_port, !.held = rx,
                                 !.printed = t.printed]
  /\ main' = [main EXCEPT !.pc = "finally"]
  /\ UNCHANGED << print_debug, is_open, module_type, head, serial_port, mem,
                  stored, timedout, calls >>

\* Ctrl+C again, in a handler: the exception leaves the handler
MainInterruptAgain ==
  /\ main.pc \in { "interrupt", "except" }
  /\ main' = [pc |-> "finally", left |-> "interrupt"]
  /\ last' = [NoCall EXCEPT !.op = "interrupt"]
  /\ UNCHANGED << print_debug, is_open, msg, head, serial_port, module_type,
                  rx, mem, stored, timedout, calls >>

\* the try block is left by return (example3, line 59) or by its end
MainReturn ==
  /\ main.pc = "try"
  /\ main' = [pc |-> "finally", left |-> "return"]
  /\ last' = [NoCall EXCEPT !.op = "return"]
  /\ UNCHANGED << print_debug, is_open, msg, head, serial_port, module_type,
                  rx, mem, stored, timedout, calls >>

\* except Exception as e: the error is printed (example1, lines 135-136)
MainExcept ==
  /\ main.pc = "except"
  /\ main' = [main EXCEPT !.pc = "finally"]
  /\ last' = [NoCall EXCEPT !.op = "except"]
  /\ UNCHANGED << print_debug, is_open, msg, head, serial_port, module_type,
                  rx, mem, stored, timedout, calls >>

\* finally: rfid.close() (example1, lines 138-139); main() is left, with the
\* exception of close() if it raises one
MainFinally ==
  /\ main.pc = "finally"
  /\ \E c \in { close(serial_port, is_open) } :
       /\ is_open' = c.is_open
       /\ main' = [main EXCEPT !.pc = IF c.raised THEN "raised" ELSE "done"]
       /\ last' = [NoCall EXCEPT !.op = "close", !.raised = c.raised,
                                 !.open = (serial_port /\ is_open),
                                 !.ret = is_open]
  /\ UNCHANGED << print_debug, msg, head, serial_port, module_type, rx, mem,
                  stored, timedout, calls >>

\* close(), or __exit__ (lines 710-712), on a reader whose port was never
\* opened or is closed already
Close ==
  /\ main.pc \in { "start", "done" }
  /\ \E c \in { close(serial_port, is_open) } :
       /\ is_open' = c.is_open
       /\ last' = [NoCall EXCEPT !.op = "close", !.raised = c.raised,
                                 !.open = (serial_port /\ is_open),
                                 !.ret = is_open]
  /\ UNCHANGED << print_debug, main, msg, head, serial_port, module_type, rx,
                  mem, stored, timedout, calls >>

NextSession ==
  \/ MainBegin
  \/ MainCall
  \/ MainArrive
  \/ MainCheck
  \/ MainInterrupt
  \/ MainStop
  \/ MainInterruptAgain
  \/ MainReturn
  \/ MainExcept
  \/ MainFinally
  \/ Close

SpecSession == Init /\ [][NextSession]_vars

(***************************************************************************)
(* Transactions between the calls of check()                               *)
(***************************************************************************)
\* commands: get_version(), a write of two bytes to the user bank, and a
\* payload as long as the data of the longest frame the buffer holds
Commands ==
  { << TMR_SR_OPCODE_VERSION, << >> >>,
    << TMR_SR_OPCODE_WRITE_TAG_DATA, << 7, 208, 0, 0, 0, 0, 0, 3, 171, 205 >> >>,
    << TMR_SR_OPCODE_READ_TAG_ID_MULTIPLE, Zeros(MAX_MSG_SIZE - 7) >> }

\* the bytes send_message(opcode, data) writes to an open port
Written(opcode, data) ==
  send_message(ZeroMsg, TRUE, FALSE, << >>, opcode, data, FALSE, << >>, 0).wrote

\* for each command, its own bytes as they come back from the port, and
\* the frame of the same opcode and data as the module lays a response out
Exchanges ==
  { [command |-> c, echo |-> Written(c[1], c[2]),
     response |-> RespFrame(c[1], 0, c[2])] : c \in Commands }
Echo(c) == (CHOOSE x \in Exchanges : x.command = c).echo
Response(c) == (CHOOSE x \in Exchanges : x.command = c).response

\* a transaction of one of the commands: its own bytes come back, or the
\* response with its opcode and data, in time or after the timeout; or the
\* command is sent without waiting
Exchange ==
  \E c \in Commands :
    \/ SendMessage(c[1], c[2], TRUE, Echo(c), Len(Echo(c)))
    \/ \E k \in { 0, Len(Response(c)) } :
         SendMessage(c[1], c[2], TRUE, Response(c), k)
    \/ SendMessage(c[1], c[2], FALSE, << >>, 0)

\* what arrives between two calls: the echoes, the responses, a keepalive
\* and the first bytes of one
Hear ==
  \E s \in { Echo(c) : c \in Commands } \cup { Response(c) : c \in Commands }
             \cup { KeepAlive, Part(KeepAlive, 1, 4) } :
    Arrive(s)

Next ==
  \/ Begin
  \/ Hear
  \/ Check
  \/ ParseResponse
  \/ Exchange

Spec == Init /\ [][Next]_vars

(***************************************************************************)
(* A simulated module that keeps the tag's memory                          *)
(***************************************************************************)
\* the number that four bytes spell, most significant first
WordOf(b) == (b[1] * 16777216) + (b[2] * 65536) + (b[3] * 256) + b[4]

\* the payload of the command frame w: what lies between opcode and CRC
PayloadOf(w) == Part(w, 4, Len(w) - 2)

\* the tag's memory after the module received the bytes w: a write command
\* (timeout, option, address, bank, data) stores its data at bank and address
SimMemory(memory, w) ==
  IF Len(w) >= 13 /\ w[3] = TMR_SR_OPCODE_WRITE_TAG_DATA
  THEN LET p == PayloadOf(w)
           ba == << p[8], WordOf(Part(p, 4, 7)) >>
       IN  IF ba \in DOMAIN memory
           THEN [memory EXCEPT ![ba] = Part(p, 9, Len(p))]
           ELSE memory
  ELSE memory

\* the module's answer to the bytes w: status word 0x0000 and the opcode of
\* the command; to a read command (timeout, option, metadata, bank, address,
\* length) the option and metadata bytes and then what is stored there
SimResponse(memory, w) ==
  IF Len(w) >= 16 /\ w[3] = TMR_SR_OPCODE_READ_TAG_DATA
  THEN LET p == PayloadOf(w)
           ba == << p[6], WordOf(Part(p, 7, 10)) >>
       IN  RespFrame(w[3], 0,
                     Part(p, 3, 5) \o (IF ba \in DOMAIN memory THEN memory[ba]
                                       ELSE << >>))
  ELSE IF Len(w) >= 5 THEN RespFrame(w[3], 0, << >>)
  ELSE << >>

\* the byte strings written: b'\xAB\xCD', nothing, an EPC, and the longest
\* string whose command fits the buffer
SimData ==
  { << 171, 205 >>, << >>, AnEpc, Zeros(MAX_MSG_SIZE - 13) }

\* the bytes write_data and read_data write to the port
SimCommands ==
  { [call |-> x,
     wrote |-> Written(TMR_SR_OPCODE_WRITE_TAG_DATA,
                       WriteDataPayload(x[1], x[2], x[3], COMMAND_TIME_OUT))] :
      x \in Banks \X Addresses \X SimData }
    \cup { [call |-> x,
            wrote |-> Written(TMR_SR_OPCODE_READ_TAG_DATA,
                              ReadDataPayload(x[1], x[2], COMMAND_TIME_OUT))] :
             x \in Banks \X Addresses }
WriteCommand(b, a, d) ==
  (CHOOSE x \in SimCommands : x.call = << b, a, d >>).wrote
ReadCommand(b, a) ==
  (CHOOSE x \in SimCommands : x.call = << b, a >>).wrote

\* write_data against the simulated module
SimWrite ==
  \E b \in Banks, a \in Addresses, d \in SimData :
    \E resp \in { SimResponse(mem, WriteCommand(b, a, d)) } :
      /\ WriteData(b, a, d, COMMAND_TIME_OUT, resp, Len(resp))
      /\ mem' = IF serial_port THEN SimMemory(mem, WriteCommand(b, a, d))
                ELSE mem

\* read_data against the simulated module
SimRead ==
  \E b \in Banks, a \in Addresses :
    \E resp \in { SimResponse(mem, ReadCommand(b, a)) } :
      ReadData(b, a, COMMAND_TIME_OUT, resp, Len(resp))

NextSim ==
  \/ Begin
  \/ SimWrite
  \/ SimRead

SpecSim == Init /\ [][NextSim]_vars

(***************************************************************************)
(* Responses with one byte changed on the way                              *)
(***************************************************************************)
\* the two bytes of the CRC of body, high byte first
CrcBytes(body) ==
  LET crc == calculate_crc(body) IN << crc \div 256, crc % 256 >>

\* valid responses: read data, a keepalive, and read data whose two data
\* bytes are what the CRC of the same response without data would be
ValidFrames ==
  { RespFrame(TMR_SR_OPCODE_READ_TAG_DATA, 0, << 16, 0, 0, 171, 205 >>),
    KeepAlive,
    RespFrame(TMR_SR_OPCODE_READ_TAG_DATA, 0,
              CrcBytes(<< 0, TMR_SR_OPCODE_READ_TAG_DATA, 0, 0 >>)) }

\* the places of the length byte and of the payload (status word and data)
\* in the frame f
LengthAndPayload(f) == { 2 } \cup (4 .. (Len(f) - 2))

\* every valid response with one byte of its length or payload replaced by
\* a different value
Corrupted ==
  { Replace(x[1], x[2], x[3]) :
      x \in { y \in ValidFrames \X (1 .. 12) \X Byte :
                y[2] \in LengthAndPayload(y[1]) /\ y[3] # y[1][y[2]] } }

\* the first exchange of the object is answered by a corrupted response
CorruptAnswer ==
  /\ calls = 0
  /\ \E r \in Corrupted : SendMessage(r[3], << >>, TRUE, r, Len(r))

\* the first bytes the object hears are a corrupted response
CorruptArrival ==
  /\ calls = 0
  /\ \E r \in Corrupted : Arrive(r)

NextCorrupt ==
  \/ Begin
  \/ CorruptAnswer
  \/ CorruptArrival
  \/ Check
  \/ ParseResponse

SpecCorrupt == Init /\ [][NextCorrupt]_vars

(***************************************************************************)
(* Claims about one transaction                                            *)
(***************************************************************************)
\* the last call was a transaction that waited for the answer on an open port
Waited ==
  /\ last.op \in { "send", "read", "write", "kill" }
  /\ last.wait
  /\ last.open

\* the bytes of the answer that arrived before the timeout
Arrived == Part(last.resp, 1, last.k)

\* a complete frame arrived in time: the length byte and, counted from the
\* header, length + 7 bytes
CompleteInTime == Len(Arrived) >= 2 /\ Len(Arrived) >= Arrived[2] + 7

\* that frame
ArrivedFrame == Part(Arrived, 1, Arrived[2] + 7)

\* the two bytes that end the frame f are the CRC of its bytes after the
\* header
CrcValid(f) ==
  LET crc == calculate_crc(Part(f, 2, Len(f) - 2))
  IN  f[Len(f) - 1] = crc \div 256 /\ f[Len(f)] = crc % 256

\* the outcome the decision order of send_command gives to the last call
DecidedOutcome ==
  IF ~CompleteInTime THEN ERROR_COMMAND_RESPONSE_TIMEOUT
  ELSE IF ~CrcValid(ArrivedFrame) THEN ERROR_CORRUPT_RESPONSE
  ELSE IF ArrivedFrame[3] # last.opcode THEN ERROR_WRONG_OPCODE_RESPONSE
  ELSE ALL_GOOD

\* C1: every send_message/send_command call that waits on an open connection
\* records in msg[0] exactly one of Timeout, CorruptFrame, OpcodeMismatch and
\* Success, decided in that order; Success if and only if the frame was
\* complete in time, CRC-valid and opcode-matching.
C1_OutcomeDecided ==
  Waited => /\ ~last.raised
            /\ B(msg, 0) = DecidedOutcome
            /\ B(msg, 0) \in { ERROR_COMMAND_RESPONSE_TIMEOUT,
                               ERROR_CORRUPT_RESPONSE,
                               ERROR_WRONG_OPCODE_RESPONSE, ALL_GOOD }

\* C7: read_data returns (RESPONSE_SUCCESS, data) if and only if the outcome
\* is Success and the status word at offsets 3-4 is 0x0000, data being the
\* slice of the buffer from offset 8 of length (response length - 3); in
\* every other case it returns (RESPONSE_FAIL, empty) without raising.
C7_ReadDataResult ==
  last.op = "read" =>
    /\ ~last.raised
    /\ last.ret[1] \in { RESPONSE_SUCCESS, RESPONSE_FAIL }
    /\ last.ret[1] = RESPONSE_SUCCESS
         <=> (last.open /\ DecidedOutcome = ALL_GOOD
                /\ ArrivedFrame[4] = 0 /\ ArrivedFrame[5] = 0)
    /\ last.ret[1] = RESPONSE_SUCCESS
         => last.ret[2] = Part(ArrivedFrame, 9, 8 + (ArrivedFrame[2] - 3))
    /\ last.ret[1] = RESPONSE_FAIL => last.ret[2] = << >>

\* C8: write_data and kill_tag return RESPONSE_SUCCESS if and only if the
\* outcome is Success and the status word at offsets 3-4 is 0x0000, and
\* RESPONSE_FAIL in every other case.
C8_StatusResult ==
  last.op \in { "write", "kill" } =>
    /\ ~last.raised
    /\ last.ret \in { RESPONSE_SUCCESS, RESPONSE_FAIL }
    /\ last.ret = RESPONSE_SUCCESS
         <=> (last.open /\ DecidedOutcome = ALL_GOOD
                /\ ArrivedFrame[4] = 0 /\ ArrivedFrame[5] = 0)

(***************************************************************************)
(* Claims about listening                                                  *)
(***************************************************************************)
\* the last check() stored at least one byte: the port was open and held
\* bytes, and a frame was being assembled or a header byte was among them
StoredSome ==
  /\ last.open
  /\ last.resp # << >>
  /\ last.k > 0 \/ \E i \in 1 .. Len(last.resp) : last.resp[i] = HEADER

\* C3: in incremental decode, starting from cursor 0, a check() call returns
\* True exactly when the number of bytes stored since, and including, the
\* header byte equals buffer[1] + 7; the buffer then holds those bytes in
\* arrival order from index 0; True is returned at no other cursor value.
C3_CheckCompletes ==
  last.op = "check" =>
    /\ last.ret = TRUE <=> (StoredSome /\ Len(stored) = B(msg, 1) + 7)
    /\ last.ret = TRUE => /\ Slice(msg, 0, B(msg, 1) + 7) = stored
                          /\ head = 0

\* the frame at the start of the buffer, as long as its length byte says
BufferFrame == Slice(msg, 0, B(msg, 1) + 7)

\* the buffer holds a whole frame and the frame's CRC is right
HoldsValidFrame ==
  /\ B(msg, 1) + 7 <= MAX_MSG_SIZE
  /\ CrcValid(BufferFrame)

\* the kind of the frame f by the table: opcode, then length, then status word
KindOf(f) ==
  LET status == f[4] * 256 + f[5]
  IN  IF f[3] # TMR_SR_OPCODE_READ_TAG_ID_MULTIPLE THEN ERROR_UNKNOWN_OPCODE
      ELSE IF f[2] = 0
      THEN CASE status = 1024 -> RESPONSE_IS_KEEPALIVE
             [] status = 1284 -> RESPONSE_IS_TEMPTHROTTLE
             [] status = 1285 -> RESPONSE_IS_HIGHRETURNLOSS
             [] OTHER -> RESPONSE_IS_UNKNOWN
      ELSE IF f[2] = 8 THEN RESPONSE_IS_UNKNOWN
      ELSE IF f[2] = 10 THEN RESPONSE_IS_TEMPERATURE
      ELSE RESPONSE_IS_TAGFOUND

\* C6: for every CRC-valid frame parse_response returns the one kind the
\* table gives: another opcode than READ_TAG_ID_MULTIPLE is UnknownOpcode;
\* length 0 is KeepAlive, TempThrottle, HighReturnLoss by the status word
\* 0x0400, 0x0504, 0x0505 and Unknown for any other; length 8 is Unknown;
\* length 0x0A is Temperature; every other length is TagFound.
C6_ClassifierTable ==
  (last.op = "parse" /\ HoldsValidFrame) =>
    /\ ~last.raised
    /\ last.ret = KindOf(BufferFrame)

\* a frame with status word 0x0505 and no data was classified
C6_Witness ==
  /\ last.op = "parse"
  /\ HoldsValidFrame
  /\ BufferFrame[2] = 0
  /\ BufferFrame[4] * 256 + BufferFrame[5] = 1285
  /\ last.ret = RESPONSE_IS_HIGHRETURNLOSS

\* check() assembled a TagFound frame that is long enough to hold the
\* fields, and it is still in the buffer
TagFoundAssembled ==
  /\ HoldsValidFrame
  /\ BufferFrame = stored
  /\ KindOf(stored) = RESPONSE_IS_TAGFOUND
  /\ Len(stored) >= 21

\* C10: for a TagFound frame get_tag_rssi is the raw byte - 256 (raw 200
\* gives -56), get_tag_freq the 3-byte big-endian unsigned value (0x12 0x34
\* 0x56 gives 0x123456, within 0 .. 2^24 - 1) and get_tag_timestamp the
\* 4-byte big-endian unsigned value (within 0 .. 2^32 - 1), for every byte
\* content.  The timestamp is compared by its 16-bit halves.
C10_FieldExtraction ==
  TagFoundAssembled =>
    /\ last.op = "rssi" =>
         /\ last.ret = stored[13] - 256
         /\ stored[13] = 200 => last.ret = -56
    /\ last.op = "freq" =>
         /\ last.ret = (stored[15] * 65536) + (stored[16] * 256) + stored[17]
         /\ last.ret \in 0 .. 16777215
         /\ (stored[15] = 18 /\ stored[16] = 52 /\ stored[17] = 86)
              => last.ret = 1193046
    /\ last.op = "timestamp" =>
         /\ last.ret = << (stored[18] * 256) + stored[19],
                          (stored[20] * 256) + stored[21] >>
         /\ last.ret[1] \in 0 .. 65535
         /\ last.ret[2] \in 0 .. 65535

\* the report with raw RSSI 200 was assembled and get_tag_rssi gave -56
C10_Witness ==
  /\ TagFoundAssembled
  /\ last.op = "rssi"
  /\ stored[13] = 200
  /\ last.ret = -56

(***************************************************************************)
(* Claims about transactions between the calls of check()                  *)
(***************************************************************************)
\* C2: when no byte arrives within the timeout, send_command ends with
\* Timeout, and the object is fit for a fresh transaction: a following
\* send_message whose response is complete, CRC-valid and opcode-matching
\* ends in Success, and a following check() assembles the next frame from a
\* header byte on, unchanged by what the timed-out exchange left behind.
C2_FreshAfterTimeout ==
  /\ (last.op = "send" /\ Waited /\ last.k = 0) =>
       /\ ~last.raised
       /\ B(msg, 0) = ERROR_COMMAND_RESPONSE_TIMEOUT
  /\ (timedout /\ last.op = "send" /\ Waited /\ DecidedOutcome = ALL_GOOD) =>
       /\ ~last.raised
       /\ B(msg, 0) = ALL_GOOD
  /\ (timedout /\ last.op = "check" /\ last.ret = TRUE) =>
       /\ B(msg, 0) = HEADER
       /\ BufferFrame = stored

\* the last call wrote a command and got exactly these bytes back, in time
EchoedBack ==
  /\ last.op = "send"
  /\ Waited
  /\ last.wrote # << >>
  /\ last.resp = last.wrote
  /\ last.k = Len(last.resp)

\* the last call got the response frame of its own opcode and data, in time
AnsweredInKind ==
  /\ last.op = "send"
  /\ Waited
  /\ << last.opcode, last.data >> \in Commands
  /\ last.resp = Response(<< last.opcode, last.data >>)
  /\ last.k = Len(last.resp)

\* the buffer holds a frame of this opcode and data, with a right CRC
Decoded(opcode, data) ==
  /\ B(msg, 2) = opcode
  /\ B(msg, 1) = Len(data)
  /\ HoldsValidFrame
  /\ Part(BufferFrame, 4, Len(BufferFrame) - 2) = data
       \/ Part(BufferFrame, 6, Len(BufferFrame) - 2) = data

C9_WriteThenRead ==
  /\ (last.op = "write" /\ last.open) =>
       /\ last.ret = RESPONSE_SUCCESS
       /\ mem[<< last.data[1], last.data[2] >>] = last.data[4]
  /\ (last.op = "read" /\ last.open) =>
       last.ret = << RESPONSE_SUCCESS, mem[<< last.data[1], last.data[2] >>] >>

\* b'\xAB\xCD', written before to bank 3 at address 2, was read back
C9_Witness ==
  /\ last.op = "read"
  /\ last.open
  /\ last.data[1] = 3
  /\ last.data[2] = 2
  /\ last.ret = << RESPONSE_SUCCESS, << 171, 205 >> >>

(***************************************************************************)
(* Claims about corrupted responses                                        *)
(***************************************************************************)
\* the valid responses that r is, but for one byte
CorruptedFrom(r) ==
  { f \in ValidFrames :
      /\ Len(f) = Len(r)
      /\ Cardinality({ i \in 1 .. Len(f) : f[i] # r[i] }) = 1 }

\* the place of that byte
ChangedAt(f, r) == CHOOSE i \in 1 .. Len(f) : f[i] # r[i]

\* the last call was a transaction answered, in time, by these bytes
AnsweredInFull ==
  /\ last.op = "send"
  /\ Waited
  /\ last.k = Len(last.resp)

\* check() assembled a frame that is still in the buffer, and the port
\* holds what followed it
Assembled ==
  /\ head = 0
  /\ Len(stored) >= 7
  /\ Len(stored) = stored[2] + 7
  /\ BufferFrame = stored

ReportAssembled ==
  /\ HoldsValidFrame
  /\ BufferFrame = stored
  /\ KindOf(stored) = RESPONSE_IS_TAGFOUND

\* the bit count of the embedded tag data of the frame f, the bytes that
\* hold so many bits, and the bit count that follows them
EmbeddedBits(f) == (f[25] * 256) + f[26]
EmbeddedBytes(f) == (EmbeddedBits(f) + 7) \div 8
EpcBits(f) == (f[28 + EmbeddedBytes(f)] * 256) + f[29 + EmbeddedBytes(f)]

\* the frame f reaches to the end of the bit count behind its embedded data
HasLengthFields(f) == Len(f) >= 26 /\ Len(f) >= 29 + EmbeddedBytes(f)

C12_EpcSlice ==
  (ReportAssembled /\ last.op = "epc" /\ HasLengthFields(stored)) =>
    /\ ~last.raised
    /\ last.ret = Part(stored, 32 + EmbeddedBytes(stored),
                       31 + EmbeddedBytes(stored) + ((EpcBits(stored) \div 8) - 4))
    /\ \A r \in Reports : stored = r.frame => last.ret = r.epc

\* the number of bytes a frame must have for the field that the last call
\* read to lie within it
FieldEnd ==
  CASE last.op = "rssi" -> 13
    [] last.op = "freq" -> 17
    [] last.op = "timestamp" -> 21
    [] last.op = "data_bytes" -> 26
    [] last.op = "epc_bytes" ->
         29 + ((((B(msg, 24) * 256) + B(msg, 25)) + 7) \div 8)
    [] OTHER -> 0

\* C13: reading a tag-report field (RSSI, frequency, timestamp, embedded
\* length, EPC length) from a frame that ends before the field is rejected:
\* no getter returns a value computed from bytes beyond the received frame.
C13_ShortFrameRejected ==
  (ReportAssembled /\ FieldEnd > Len(stored)) => last.raised

C15_PayloadTooLarge ==
  (last.op = "send" /\ Len(last.data) > LargestPayload) =>
    /\ ~last.raised
    /\ last.wrote = << >>

\* C16: for every opcode and every accepted payload the bytes send_message
\* writes to the port are [0xFF, len(payload), opcode, payload..., crc_hi,
\* crc_lo], len(payload) + 5 bytes, the CRC being calculate_crc over [len,
\* opcode, payload...]; no byte that an earlier, longer command or response
\* left in the buffer is written.
C16_WrittenFrame ==
  (last.op = "send" /\ last.open /\ Len(last.data) <= LargestPayload) =>
    /\ ~last.raised
    /\ last.wrote = << HEADER, Len(last.data), last.opcode >> \o last.data
                      \o CrcBytes(<< Len(last.data), last.opcode >> \o last.data)
    /\ Len(last.wrote) = Len(last.data) + 5

\* get_version() wrote its 5 bytes while the buffer held, behind the
\* answer, bytes of an earlier command with the longest payload
C16_Witness ==
  /\ last.op = "send"
  /\ last.open
  /\ last.opcode = TMR_SR_OPCODE_VERSION
  /\ last.data = << >>
  /\ Len(last.wrote) = 5
  /\ B(msg, 7) = 170
  /\ B(msg, LargestPayload + 2) = 170

C19_RegionCode ==
  (last.op = "region" /\ last.open) =>
    LET region == last.data[1]
        sent == IF module_type = M6E_NANO /\ region = REGION_NORTHAMERICA
                THEN REGION_NORTHAMERICA2
                ELSE region
    IN  /\ ~last.raised
        /\ last.wrote = << HEADER, 1, TMR_SR_OPCODE_SET_REGION, sent >>
                          \o CrcBytes(<< 1, TMR_SR_OPCODE_SET_REGION, sent >>)
        /\ last.wrote[4] = REGION_NORTHAMERICA2
             <=> \/ region = REGION_NORTHAMERICA2
                 \/ module_type = M6E_NANO /\ region = REGION_NORTHAMERICA

\* REGION_NORTHAMERICA was set on the M7E_HECTO and sent as it is
C19_Witness ==
  /\ last.op = "region"
  /\ last.open
  /\ module_type = M7E_HECTO
  /\ last.data = << REGION_NORTHAMERICA >>
  /\ last.wrote[4] = REGION_NORTHAMERICA

(***************************************************************************)
(* Claims about the causes of a failure                                    *)
(***************************************************************************)
\* the last call was a read_data or write_data on an open port that failed
Failed ==
  /\ last.op \in { "read", "write" }
  /\ last.open
  /\ ~last.raised
  /\ last.op = "read" => last.ret[1] = RESPONSE_FAIL
  /\ last.op = "write" => last.ret = RESPONSE_FAIL

\* why it failed, as send_command recorded it in msg[0] (lines 636, 664,
\* 669, 672): no response in time; a response with a wrong CRC or another
\* opcode; a well-formed response with a non-zero status word
Cause ==
  IF B(msg, 0) = ERROR_COMMAND_RESPONSE_TIMEOUT THEN "timeout"
  ELSE IF B(msg, 0) \in { ERROR_CORRUPT_RESPONSE, ERROR_WRONG_OPCODE_RESPONSE }
  THEN "desync"
  ELSE "status"

\* C20: a failed read_data/write_data yields a failure value that tells the
\* three causes apart: two failures of the same operation, one after the
\* other, with different causes never return the same result.
C20_FailureCauses ==
  [][(Failed /\ Failed' /\ last.op = last'.op /\ Cause # Cause')
       => last.ret # last'.ret]_vars

(***************************************************************************)
(* Claims about the incremental decoder                                    *)
(***************************************************************************)
\* C23: whenever check() returns True the cursor is 0 and every byte of the
\* buffer at an index at or beyond the frame size (buffer[1] + 7) is zero,
\* whatever earlier frames or commands had left there.
C23_TailZeroed ==
  (last.op = "check" /\ last.ret = TRUE) =>
    /\ head = 0
    /\ \A i \in (B(msg, 1) + 7) .. (MAX_MSG_SIZE - 1) : B(msg, i) = 0

\* check() returned True for a frame while the buffer held, behind the
\* frame's end, bytes other than zero
C23_Witness ==
  /\ last.op = "check"
  /\ last.ret = TRUE
  /\ \E i \in (B(msg, 1) + 7) .. (MAX_MSG_SIZE - 1) : B(last.buf, i) # 0
  /\ \A i \in (B(msg, 1) + 7) .. (MAX_MSG_SIZE - 1) : B(msg, i) = 0

\* check() was called with the cursor at 0 on an open port that held bytes
HeaderSearch ==
  /\ last.op = "check"
  /\ last.open
  /\ last.k = 0
  /\ last.resp # << >>

\* the number of bytes of s before its first header byte
LeadingNoise(s) ==
  CHOOSE n \in 0 .. Len(s) :
    /\ \A i \in 1 .. n : s[i] # HEADER
    /\ n = Len(s) \/ s[n + 1] = HEADER

\* C24: while the cursor is 0, every incoming byte other than 0xFF is
\* consumed from the port and discarded, leaving the buffer and the cursor
\* unchanged; only a 0xFF byte starts a frame (stored at index 0, cursor
\* becomes 1).
C24_HeaderSearch ==
  HeaderSearch =>
    LET n == LeadingNoise(last.resp)
    IN  /\ n = Len(last.resp) =>
             /\ last.ret = FALSE
             /\ msg = last.buf
             /\ head = 0
             /\ rx = << >>
        /\ n < Len(last.resp) =>
             /\ B(msg, 0) = HEADER
             /\ stored = Part(last.resp, n + 1, n + Len(stored))
             /\ n + Len(stored) + Len(rx) = Len(last.resp)
        /\ n + 1 = Len(last.resp) =>
             /\ last.ret = FALSE
             /\ msg = Put(last.buf, 0, HEADER)
             /\ head = 1

\* two bytes of noise and a header byte were read: the noise is gone, the
\* header byte is at index 0 and the cursor is 1
C24_Witness ==
  /\ HeaderSearch
  /\ last.resp = << 1, 2, HEADER >>
  /\ B(msg, 0) = HEADER
  /\ B(msg, 1) # 1
  /\ head = 1
  /\ rx = << >>

C26_CrcFirst ==
  (/\ last.op = "parse"
   /\ B(msg, 1) + 7 <= MAX_MSG_SIZE
   /\ ~CrcValid(BufferFrame)) =>
    /\ ~last.raised
    /\ last.ret = ERROR_CORRUPT_RESPONSE

\* check() assembled a frame of opcode 0x22 and length 0 whose status word
\* was changed on the way, and parse_response called it corrupt
C26_Witness ==
  /\ last.op = "parse"
  /\ head = 0
  /\ stored = BufferFrame
  /\ B(msg, 2) = TMR_SR_OPCODE_READ_TAG_ID_MULTIPLE
  /\ B(msg, 1) = 0
  /\ BitOr(B(msg, 3) * 256, B(msg, 4)) # 1024
  /\ ~CrcValid(BufferFrame)
  /\ last.ret = ERROR_CORRUPT_RESPONSE

\* C28: a transaction issued while a frame is only partly assembled
\* (cursor > 0) discards the partial frame: after any send_message call the
\* next check() starts from the header search at cursor 0, and check() never
\* returns True for a buffer that mixes bytes of the partial frame with
\* bytes of the command, of its response or of a later frame.
C28_PartialDiscarded ==
  /\ last.op = "send" => head = 0
  /\ (last.op = "check" /\ last.ret = TRUE) => BufferFrame = stored

\* C29: for every length byte L, if the port delivers, starting while the
\* cursor is 0, a header byte and the remaining L + 6 bytes of a frame, then
\* check() returns True for that frame; the cursor stays within
\* 0 .. MAX_MSG_SIZE - 1.
C29_EveryLengthCompletes ==
  /\ head \in 0 .. (MAX_MSG_SIZE - 1)
  /\ (/\ HeaderSearch
      /\ Len(last.resp) >= 2
      /\ last.resp[1] = HEADER
      /\ Len(last.resp) = last.resp[2] + 7) => last.ret = TRUE

(***************************************************************************)
(* Claims about the blocking decode                                        *)
(***************************************************************************)
\* C30: for every response byte stream, including every value of the
\* received length byte, the blocking decode of send_command stays within
\* the buffer and the call ends with one of the outcomes, not with a raised
\* fault.
C30_DecodeInBounds ==
  (Waited /\ last.resp # << >>) => ~last.raised

\* C31: every response that send_command accepts as Success begins with
\* the header byte 0xFF.  When a transaction that waited has ended with
\* msg[0] = ALL_GOOD, the first byte that arrived was the header byte.
C31_HeaderRequired ==
  (Waited /\ ~last.raised /\ Arrived # << >> /\ B(msg, 0) = ALL_GOOD) =>
    Arrived[1] = HEADER

(***************************************************************************)
(* Claims about start_reading                                              *)
(***************************************************************************)
\* the bytes of the read-filter-disable command and of the continuous-read
\* command, as send_message lays them out
FilterDisable ==
  << HEADER, 3, TMR_SR_OPCODE_SET_READER_OPTIONAL_PARAMS, 1, 12, 0 >>
    \o CrcBytes(<< 3, TMR_SR_OPCODE_SET_READER_OPTIONAL_PARAMS, 1, 12, 0 >>)
ContinuousRead ==
  << HEADER, Len(ConfigBlob), TMR_SR_OPCODE_MULTI_PROTOCOL_TAG_OP >> \o ConfigBlob
    \o CrcBytes(<< Len(ConfigBlob), TMR_SR_OPCODE_MULTI_PROTOCOL_TAG_OP >>
                  \o ConfigBlob)

\* C27: every start_reading() call on an open connection writes the
\* read-filter-disable command (set reader optional params 0x0C = 0x00),
\* and finishes that transaction, before it writes the continuous-read
\* command; the continuous-read command is written whatever the first
\* transaction ended with.
C27_FilterThenRead ==
  (last.op = "start_reading" /\ last.open) =>
    last.wrote = FilterDisable \o ContinuousRead

(***************************************************************************)
(* Claims about debugging                                                  *)
(***************************************************************************)
\* the calls that print when debugging is enabled
Printing == { "send", "read", "write", "kill", "region",
              "start_reading", "check" }

\* C21: the debug flag never affects control flow.  A call made with
\* debugging enabled writes the same bytes to the port, consumes the same
\* bytes from it, leaves the same buffer and cursor, and returns or raises
\* the same, as the same call made in the same state with debugging
\* disabled; so two runs of one sequence of calls and inputs agree step by
\* step.
C21_DebugDecorative ==
  (print_debug /\ last.op \in Printing) =>
    last.quiet = [msg |-> msg, head |-> head, rx |-> rx,
                  wrote |-> last.wrote, ret |-> last.ret,
                  raised |-> last.raised]

\* debugging is enabled, and a transaction has printed the command and the
\* response and ended well
C21_Witness ==
  /\ print_debug
  /\ last.op = "send"
  /\ Len(last.printed) = 2
  /\ last.printed[1].line = "Send command:"
  /\ last.printed[2].line = "Response:"
  /\ B(msg, 0) = ALL_GOOD

====
